---------------------------- MODULE Spec2Model ----------------------------
(***************************************************************************)
(* Model of the template interpolation core of josuerivassss/kit:          *)
(*   src/core/interpolation/lexer.py         lex and its helpers           *)
(*   src/core/interpolation/nodes.py         TextNode, PlaceholderNode     *)
(*   src/core/interpolation/render_result.py RenderResult                  *)
(*   src/core/interpolation/interpreter.py   Interpreter                   *)
(*   src/core/interpolation/interpolator.py  InterpolationEngine           *)
(*                                                                         *)
(* A Python str is a sequence of one-character strings.  Python indexes    *)
(* from 0, the model from 1; an index result of -1 (not found) is 0 here.  *)
(***************************************************************************)
EXTENDS Integers, Sequences, FiniteSets, TLC

(***************************************************************************)
(* Strings                                                                 *)
(***************************************************************************)
ESCAPE_CHAR == "\\"

\* The characters an escape applies to (lexer.py line 45).
SpecialChars == {"{", "}", "\\", ";", ":"}

\* Whitespace as str.strip() sees it; the model's alphabet holds the blank.
Whitespace == {" "}

Max(a, b) == IF a >= b THEN a ELSE b

RECURSIVE lstrip(_)
lstrip(s) ==
    IF s # <<>> /\ Head(s) \in Whitespace THEN lstrip(Tail(s)) ELSE s

RECURSIVE rstrip(_)
rstrip(s) ==
    IF s # <<>> /\ s[Len(s)] \in Whitespace
    THEN rstrip(SubSeq(s, 1, Len(s) - 1))
    ELSE s

\* Variant: nothing is stripped.
StripNothing(s) == s

\* str.strip()
strip(s) == rstrip(lstrip(s))

RECURSIVE Concat(_)
\* "".join(parts)
Concat(parts) ==
    IF parts = <<>> THEN <<>> ELSE Head(parts) \o Concat(Tail(parts))

(***************************************************************************)
(* nodes.py.  Every node carries raw; a TextNode also value, a             *)
(* PlaceholderNode also name and args (a list of argument groups, each a   *)
(* list of nodes).  The records share one shape so that TLC can compare    *)
(* them.  src is a history field the code does not have: the span of the   *)
(* lexed string the node was produced from, recorded by lex.               *)
(***************************************************************************)
\* Variant: a PlaceholderNode whose raw is put together again from its name.
PlaceholderNodeRebuilt(raw, name, args) ==
    [type |-> "placeholder", raw |-> <<"{">> \o name \o <<"}">>,
     value |-> <<>>, name |-> name, args |-> args, src |-> <<>>]

TextNode(value) ==
    [type |-> "text", raw |-> value, value |-> value,
     name |-> <<>>, args |-> <<>>, src |-> <<>>]

PlaceholderNode(raw, name, args) ==
    [type |-> "placeholder", raw |-> raw, value |-> <<>>,
     name |-> name, args |-> args, src |-> <<>>]

(***************************************************************************)
(* lexer.py                                                                *)
(***************************************************************************)
\* The loops of the lexer are written as the code writes them: a record of
\* the loop's variables (st), one operator for the body of the while
\* statement, and the while statement itself, which runs the body until its
\* condition fails.  While(Done, Body, st) is that statement: the variables
\* when it ends, Done being the negation of its condition.  It runs the body
\* eight passes at a time; the variables after a pass (next) are taken as a
\* value from the one-element set of them, end is what the rest of the loop
\* ends with.
RECURSIVE Passes(_, _, _, _)
Passes(Done(_), Body(_), st, k) ==
    IF k = 0 \/ Done(st) THEN st
    ELSE CHOOSE end \in {Passes(Done, Body, next, k - 1) :
                             next \in {Body(st)}} : TRUE

RECURSIVE While(_, _, _)
While(Done(_), Body(_), st) ==
    IF Done(st) THEN st
    ELSE CHOOSE end \in {While(Done, Body, next) :
                             next \in {Passes(Done, Body, st, 8)}} : TRUE

\* Variant: _find_separator takes a backslash for a plain character.
FindSeparatorBodyNoEscape(text, sep, st) ==
    LET char == text[st.i] IN
    IF char = "{"
    THEN [st EXCEPT !.depth = @ + 1, !.i = @ + 1]
    ELSE IF char = "}"
    THEN [st EXCEPT !.depth = @ - 1, !.i = @ + 1]
    ELSE IF char = sep /\ st.depth = 0
    THEN [st EXCEPT !.found = st.i]
    ELSE [st EXCEPT !.i = @ + 1]

\* Variant: the separator is found inside nested braces too.
FindSeparatorBodyAnyDepth(text, sep, st) ==
    LET char == text[st.i] IN
    IF char = ESCAPE_CHAR /\ ~st.escaped
    THEN [st EXCEPT !.escaped = TRUE, !.i = @ + 1]
    ELSE IF st.escaped
    THEN [st EXCEPT !.escaped = FALSE, !.i = @ + 1]
    ELSE IF char = sep
    THEN [st EXCEPT !.found = st.i]
    ELSE [st EXCEPT !.i = @ + 1]

\* The body of the while loop of _find_separator (lines 258-278); found is
\* the index the loop returns from (line 276), 0 while it has not.
FindSeparatorBody(text, sep, st) ==
    LET char == text[st.i] IN
    IF char = ESCAPE_CHAR /\ ~st.escaped
    THEN [st EXCEPT !.escaped = TRUE, !.i = @ + 1]
    ELSE IF st.escaped
    THEN [st EXCEPT !.escaped = FALSE, !.i = @ + 1]
    ELSE IF char = "{"
    THEN [st EXCEPT !.depth = @ + 1, !.i = @ + 1]
    ELSE IF char = "}"
    THEN [st EXCEPT !.depth = @ - 1, !.i = @ + 1]
    ELSE IF char = sep /\ st.depth = 0
    THEN [st EXCEPT !.found = st.i]
    ELSE [st EXCEPT !.i = @ + 1]

FindSeparatorLoop(text, sep, st) ==
    While(LAMBDA s : s.found # 0 \/ s.i > Len(text),
          LAMBDA s : FindSeparatorBody(text, sep, s), st)

\* _find_separator (lines 252-280): the index of the first sep at brace
\* depth 0, 0 if there is none.
_find_separator(text, sep) ==
    FindSeparatorLoop(text, sep,
        [i |-> 1, depth |-> 0, escaped |-> FALSE, found |-> 0]).found

\* Variant: a semicolon separates at any brace depth.
SplitArgumentsBodyAnyDepth(args_str, st) ==
    LET char == args_str[st.i] IN
    IF char = ESCAPE_CHAR /\ ~st.escaped
    THEN [st EXCEPT !.escaped = TRUE, !.buffer = Append(@, char), !.i = @ + 1]
    ELSE IF st.escaped
    THEN [st EXCEPT !.escaped = FALSE, !.buffer = Append(@, char), !.i = @ + 1]
    ELSE IF char = ";"
    THEN [st EXCEPT !.segments = IF st.buffer # <<>>
                                 THEN Append(@, st.buffer) ELSE @,
                    !.buffer = <<>>,
                    !.i = @ + 1]
    ELSE [st EXCEPT !.buffer = Append(@, char), !.i = @ + 1]

\* Variant: a segment is kept when its buffer is empty too.
SplitArgumentsBodyKeepsEmpty(args_str, st) ==
    LET char == args_str[st.i] IN
    IF char = ESCAPE_CHAR /\ ~st.escaped
    THEN [st EXCEPT !.escaped = TRUE, !.buffer = Append(@, char), !.i = @ + 1]
    ELSE IF st.escaped
    THEN [st EXCEPT !.escaped = FALSE, !.buffer = Append(@, char), !.i = @ + 1]
    ELSE LET depth == IF char = "{" THEN st.depth + 1
                      ELSE IF char = "}" THEN st.depth - 1
                      ELSE st.depth
         IN IF char = ";" /\ depth = 0
            THEN [st EXCEPT !.depth = depth,
                            !.segments = Append(@, st.buffer),
                            !.buffer = <<>>,
                            !.i = @ + 1]
            ELSE [st EXCEPT !.depth = depth, !.buffer = Append(@, char),
                            !.i = @ + 1]

\* The body of the while loop of _split_arguments (lines 202-232).
SplitArgumentsBody(args_str, st) ==
    LET char == args_str[st.i] IN
    IF char = ESCAPE_CHAR /\ ~st.escaped
    THEN [st EXCEPT !.escaped = TRUE, !.buffer = Append(@, char), !.i = @ + 1]
    ELSE IF st.escaped
    THEN [st EXCEPT !.escaped = FALSE, !.buffer = Append(@, char), !.i = @ + 1]
    ELSE LET depth == IF char = "{" THEN st.depth + 1
                      ELSE IF char = "}" THEN st.depth - 1
                      ELSE st.depth
         IN IF char = ";" /\ depth = 0
            THEN [st EXCEPT !.depth = depth,
                            !.segments = IF st.buffer # <<>>
                                         THEN Append(@, st.buffer) ELSE @,
                            !.buffer = <<>>,
                            !.i = @ + 1]
            ELSE [st EXCEPT !.depth = depth, !.buffer = Append(@, char),
                            !.i = @ + 1]

SplitArgumentsLoop(args_str, st) ==
    While(LAMBDA s : s.i > Len(args_str),
          LAMBDA s : SplitArgumentsBody(args_str, s), st)

\* Variant: the argument portion is trimmed before it is split.
SplitArgumentsTrimmed(args_str) ==
    IF strip(args_str) = <<>> THEN <<>>
    ELSE LET st == SplitArgumentsLoop(strip(args_str),
                       [i |-> 1, buffer |-> <<>>, depth |-> 0,
                        escaped |-> FALSE, segments |-> <<>>])
         IN IF st.buffer # <<>> THEN Append(st.segments, st.buffer)
            ELSE st.segments

\* _split_arguments (lines 191-238): the argument strings between the
\* semicolons at depth 0, the empty ones left out.
_split_arguments(args_str) ==
    IF args_str = <<>> THEN <<>>
    ELSE LET st == SplitArgumentsLoop(args_str,
                       [i |-> 1, buffer |-> <<>>, depth |-> 0,
                        escaped |-> FALSE, segments |-> <<>>])
         IN IF st.buffer # <<>> THEN Append(st.segments, st.buffer)
            ELSE st.segments

\* The body of the while loop of _parse_placeholder (lines 97-127); close is
\* the index of the brace that brings depth back to 0 (line 115), 0 while
\* none has.
ParsePlaceholderBody(text, st) ==
    LET char == text[st.i] IN
    IF char = ESCAPE_CHAR /\ ~st.escaped
    THEN [st EXCEPT !.escaped = TRUE, !.i = @ + 1]
    ELSE IF st.escaped
    THEN [st EXCEPT !.escaped = FALSE, !.i = @ + 1]
    ELSE IF char = "{"
    THEN [st EXCEPT !.depth = @ + 1, !.i = @ + 1]
    ELSE IF char = "}"
    THEN IF st.depth - 1 = 0
         THEN [st EXCEPT !.depth = @ - 1, !.close = st.i]
         ELSE [st EXCEPT !.depth = @ - 1, !.i = @ + 1]
    ELSE [st EXCEPT !.i = @ + 1]

ParsePlaceholderLoop(text, st) ==
    While(LAMBDA s : s.close # 0 \/ s.i > Len(text),
          LAMBDA s : ParsePlaceholderBody(text, s), st)

\* Variant: the loop takes no notice of backslashes, so that an escaped
\* brace counts as a brace.
ClosingBraceNoEscape(text) ==
    LET depth(m) == Cardinality({k \in 1..m : text[k] = "{"})
                    - Cardinality({k \in 1..m : text[k] = "}"})
        closing == {m \in 1..Len(text) : text[m] = "}" /\ depth(m) = 0}
    IN IF closing = {} THEN 0
       ELSE CHOOSE m \in closing : \A n \in closing : m <= n

\* _parse_placeholder's loop from its start: the index of the closing brace,
\* 0 when the text is unclosed.
ClosingBrace(text) ==
    ParsePlaceholderLoop(text,
        [i |-> 1, depth |-> 0, escaped |-> FALSE, close |-> 0]).close

\* Variant: the escape branch drops the backslash before any character.
LexBodyEscapesAny(text, st) ==
    LET char == text[st.i] IN
    IF char = ESCAPE_CHAR /\ st.i + 1 <= Len(text)
    THEN [st EXCEPT !.buffer = Append(@, text[st.i + 1]), !.i = @ + 2]
    ELSE [st EXCEPT !.buffer = Append(@, char), !.i = @ + 1]

\* The body of the while loop of lex for a character that does not open a
\* placeholder (lines 41-52 and 68-69).
LexBody(text, st) ==
    LET char == text[st.i] IN
    IF char = ESCAPE_CHAR /\ st.i + 1 <= Len(text)
    THEN IF text[st.i + 1] \in SpecialChars
         THEN [st EXCEPT !.buffer = Append(@, text[st.i + 1]), !.i = @ + 2]
         ELSE [st EXCEPT !.buffer = Append(@, char), !.i = @ + 1]
    ELSE [st EXCEPT !.buffer = Append(@, char), !.i = @ + 1]

\* Line 55 is reached with an opening brace at i: not by the escape branch
\* (lines 42-52), which comes first.
AtPlaceholder(text, i) == text[i] = "{"

\* The while loop of lex up to its end or to the next placeholder.
LexLoop(text, st) ==
    While(LAMBDA s : s.i > Len(text) \/ AtPlaceholder(text, s.i),
          LAMBDA s : LexBody(text, s), st)

\* Variant: the buffer is emptied without its text being made a node.
FlushLosesText(st) == [st EXCEPT !.buffer = <<>>]

\* The flush of the text buffer (lines 57-59 and 72-73).  start is where the
\* buffered text began in the lexed string; it ends before i.
Flush(st) ==
    IF st.buffer # <<>>
    THEN [st EXCEPT !.nodes = Append(@, [TextNode(st.buffer) EXCEPT
                                  !.src = SubSeq(st.text, st.start, st.i - 1)]),
                    !.buffer = <<>>]
    ELSE st

(***************************************************************************)
(* lex, _parse_placeholder and _parse_arguments call one another; the      *)
(* model keeps their call stack.  A frame is one call in progress: fn the  *)
(* function, text its argument, the rest its local variables.  ret is what *)
(* the call that just returned gave its caller.  A step runs the top frame *)
(* up to its next call or to its return; reach is the deepest nesting of   *)
(* Python calls the step touches, counted from the first lex (1):          *)
(* _find_separator and _split_arguments call nothing, constructing a node  *)
(* nests two calls (its __init__ and Node.__init__, nodes.py lines 17, 31  *)
(* and 55).                                                                *)
(***************************************************************************)
Frame(fn, text) ==
    [fn |-> fn, text |-> text, i |-> 1, buffer |-> <<>>, start |-> 1,
     nodes |-> <<>>, close |-> 0, name |-> <<>>, arg_strings |-> <<>>,
     args |-> <<>>]

NoRet == [kind |-> "none", nodes |-> <<>>, node |-> TextNode(<<>>),
          consumed |-> 0, name |-> <<>>, args |-> <<>>]
\* Variant: _parse_placeholder reports that it consumed nothing.
RetNodeNothingConsumed(node, consumed) ==
    [NoRet EXCEPT !.kind = "node", !.node = node, !.consumed = 0]

RetNodes(nodes) == [NoRet EXCEPT !.kind = "nodes", !.nodes = nodes]
RetNode(node, consumed) ==
    [NoRet EXCEPT !.kind = "node", !.node = node, !.consumed = consumed]
RetArgs(name, args) ==
    [NoRet EXCEPT !.kind = "args", !.name = name, !.args = args]

Call(stack, fn, text) ==
    [stack |-> Append(stack, Frame(fn, text)), ret |-> NoRet,
     reach |-> Len(stack) + 1]

Return(stack, ret, reach) ==
    [stack |-> SubSeq(stack, 1, Len(stack) - 1), ret |-> ret,
     reach |-> reach]

Keep(stack, f) == [stack EXCEPT ![Len(stack)] = f]

\* lex (lines 30-75).  Lines 63-65 take the node _parse_placeholder returned;
\* the loop then runs on to the next placeholder (lines 55-62) or to the end
\* of the text (lines 71-75).
lex_step(stack, ret) ==
    LET f == stack[Len(stack)]
        took == IF ret.kind = "node"
                THEN [f EXCEPT
                        !.nodes = Append(@, [ret.node EXCEPT !.src =
                            SubSeq(f.text, f.i, f.i + ret.consumed - 1)]),
                        !.i = @ + ret.consumed,
                        !.start = f.i + ret.consumed]
                ELSE f
        st == LexLoop(f.text, took)
        depth == Len(stack)
    IN IF f.text = <<>>
       THEN Return(stack, RetNodes(<<>>), depth)
       ELSE IF st.i > Len(st.text)
       THEN Return(stack, RetNodes(Flush(st).nodes),
                   IF st.buffer # <<>> THEN depth + 2 ELSE depth)
       ELSE LET called == Call(Keep(stack, Flush(st)), "_parse_placeholder",
                               SubSeq(st.text, st.i, Len(st.text)))
            IN [called EXCEPT !.reach =
                   IF st.buffer # <<>> THEN Max(@, depth + 2) ELSE @]

\* _parse_placeholder (lines 91-130): [node, consumed] for a text that starts
\* with an opening brace.
_parse_placeholder_step(stack, ret) ==
    LET f == stack[Len(stack)]
        depth == Len(stack)
    IN IF ret.kind = "args"
       THEN \* line 125
            Return(stack,
                   RetNode(PlaceholderNode(SubSeq(f.text, 1, f.close),
                                           ret.name, ret.args), f.close),
                   depth + 2)
       ELSE LET close == ClosingBrace(f.text)
                raw == SubSeq(f.text, 1, close)
                inner == SubSeq(raw, 2, Len(raw) - 1)
            IN IF close = 0
               THEN \* line 130
                    Return(stack, RetNode(TextNode(f.text), Len(f.text)),
                           depth + 2)
               ELSE IF strip(inner) = <<>>
               THEN \* line 122
                    Return(stack, RetNode(TextNode(raw), close), depth + 2)
               ELSE \* line 124
                    Call(Keep(stack, [f EXCEPT !.close = close]),
                         "_parse_arguments", inner)

\* _parse_arguments (lines 155-175): [name, args] of a placeholder's inner
\* text, every argument string lexed on its own.
_parse_arguments_step(stack, ret) ==
    LET f == stack[Len(stack)]
        depth == Len(stack)
    IN IF ret.kind = "nodes"
       THEN \* lines 171-173
            LET args == Append(f.args, ret.nodes)
            IN IF Len(args) < Len(f.arg_strings)
               THEN Call(Keep(stack, [f EXCEPT !.args = args]), "lex",
                         f.arg_strings[Len(args) + 1])
               ELSE Return(stack, RetArgs(f.name, args), depth)
       ELSE LET colon_pos == _find_separator(f.text, ":")
                name == strip(SubSeq(f.text, 1, colon_pos - 1))
                args_str == SubSeq(f.text, colon_pos + 1, Len(f.text))
                arg_strings == _split_arguments(args_str)
            IN IF colon_pos = 0
               THEN \* line 159
                    Return(stack, RetArgs(strip(f.text), <<>>), depth + 1)
               ELSE IF arg_strings = <<>>
               THEN Return(stack, RetArgs(name, <<>>), depth + 1)
               ELSE LET called == Call(
                            Keep(stack, [f EXCEPT !.name = name,
                                            !.arg_strings = arg_strings]),
                            "lex", arg_strings[1])
                    IN [called EXCEPT !.reach = Max(@, depth + 1)]

\* One step of the lexer: the top frame runs.
LexStep(m) ==
    LET fn == m.stack[Len(m.stack)].fn IN
    IF fn = "lex" THEN lex_step(m.stack, m.ret)
    ELSE IF fn = "_parse_placeholder" THEN _parse_placeholder_step(m.stack, m.ret)
    ELSE _parse_arguments_step(m.stack, m.ret)

\* The lexer as lex(text) is called.
LexCall(text) == Call(<<>>, "lex", text)

\* The steps of the lexer up to the return of the first call.
LexRun(m) ==
    While(LAMBDA n : n.stack = <<>>,
          LAMBDA n : [LexStep(n) EXCEPT !.reach = Max(@, n.reach)], m)

\* lex(text): the nodes of a template.
lex(text) == LexRun(LexCall(text)).ret.nodes

(***************************************************************************)
(* render_result.py                                                        *)
(***************************************************************************)
Range(s) == {s[k] : k \in 1..Len(s)}

\* RenderResult(content="", embeds=[], emojis=[])
EmptyResult == [content |-> <<>>, embeds |-> <<>>, emojis |-> <<>>]

\* Variant: add_embed puts the embed first.
AddEmbedFirst(self, embed) == [self EXCEPT !.embeds = <<embed>> \o @]

\* RenderResult.add_embed (lines 29-31)
add_embed(self, embed) == [self EXCEPT !.embeds = Append(@, embed)]

\* Variant: add_emoji appends without looking for the emoji in the list.
AddEmojiAlways(self, emoji) == [self EXCEPT !.emojis = Append(@, emoji)]

\* RenderResult.add_emoji (lines 33-36)
add_emoji(self, emoji) ==
    IF emoji \in Range(self.emojis) THEN self
    ELSE [self EXCEPT !.emojis = Append(@, emoji)]

RECURSIVE AddEmojis(_, _)
\* The for loop of merge (lines 47-48).
AddEmojis(self, emojis) ==
    IF emojis = <<>> THEN self
    ELSE AddEmojis(add_emoji(self, Head(emojis)), Tail(emojis))

\* RenderResult.merge (lines 45-48)
merge(self, other) ==
    AddEmojis([self EXCEPT !.content = @ \o other.content,
                           !.embeds = @ \o other.embeds],
              other.emojis)

(***************************************************************************)
(* The placeholder manager the engine is built from.  The handlers are     *)
(* the embedding application's; the model registers one handler for each   *)
(* way a handler can behave towards the interpreter.  A handler's value is *)
(* a string or None.                                                       *)
(***************************************************************************)
None == [isNone |-> TRUE, s |-> <<>>]
Str(s) == [isNone |-> FALSE, s |-> s]

\* attribute name -> [type, name]   (decorators.py lines 48-51)
Manager ==
    { [type |-> "VARIABLE", name |-> <<"v">>, handler |-> "author"],
      [type |-> "VARIABLE", name |-> <<"b">>, handler |-> "both_variable"],
      [type |-> "VARIABLE", name |-> <<"r">>, handler |-> "failing_variable"],
      [type |-> "VARIABLE", name |-> <<"n">>, handler |-> "none_variable"],
      [type |-> "VARIABLE", name |-> <<"s">>, handler |-> "syntax_variable"],
      [type |-> "FUNCTION", name |-> <<"f">>, handler |-> "embed_join"],
      [type |-> "FUNCTION", name |-> <<"b">>, handler |-> "both_function"],
      [type |-> "FUNCTION", name |-> <<"e">>, handler |-> "failing_function"],
      [type |-> "FUNCTION", name |-> <<"m">>, handler |-> "emoji"],
      [type |-> "FUNCTION", name |-> <<"w">>, handler |-> "set_content"] }

\* InterpolationEngine.__init__ (interpolator.py lines 38-58): one map per
\* placeholder type.
Discover(placeholder_type) ==
    LET found == {d \in Manager : d.type = placeholder_type}
    IN [n \in {d.name : d \in found} |->
            (CHOOSE d \in found : d.name = n).handler]

\* What the handler syntax_variable returns: a string that holds a colon, a
\* separator, a placeholder and an escape.
SyntaxText == <<":", ";", "{", "v", "}", "\\", ";">>

\* A Variable handler called with ctx: [raised, value].
CallVariable(handler, ctx) ==
    CASE handler = "author"           -> [raised |-> FALSE, value |-> Str(ctx.author)]
      [] handler = "both_variable"    -> [raised |-> FALSE, value |-> Str(<<"B">>)]
      [] handler = "failing_variable" -> [raised |-> TRUE, value |-> None]
      [] handler = "none_variable"    -> [raised |-> FALSE, value |-> None]
      [] handler = "syntax_variable"  ->
             [raised |-> FALSE, value |-> Str(SyntaxText)]

\* A Function handler called with ctx, the RenderResult in progress and the
\* evaluated arguments: [raised, value, result], result being the
\* RenderResult as the handler leaves it.
CallFunction(handler, ctx, result, args) ==
    CASE handler = "embed_join" ->
             [raised |-> FALSE, value |-> Str(Concat(args)),
              result |-> add_embed(result, args)]
      [] handler = "both_function" ->
             [raised |-> FALSE, value |-> Str(<<"b">> \o Concat(args)),
              result |-> result]
      [] handler = "failing_function" ->
             [raised |-> TRUE, value |-> None,
              result |-> add_emoji(result, <<"!">>)]
      [] handler = "emoji" ->
             \* one required parameter: a call without it is a TypeError
             IF Len(args) # 1
             THEN [raised |-> TRUE, value |-> None, result |-> result]
             ELSE [raised |-> FALSE, value |-> None,
                   result |-> add_emoji(result, args[1])]
      [] handler = "set_content" ->
             [raised |-> FALSE, value |-> Str(Concat(args)),
              result |-> [result EXCEPT !.content = <<"W">>]]

\* Variant: what a handler returns is lexed, and the text of its nodes is what
\* the placeholder gives.
StringifyLexed(value) ==
    IF value.isNone THEN <<>>
    ELSE LET ns == lex(value.s)
         IN Concat([k \in DOMAIN ns |->
                IF ns[k].type = "text" THEN ns[k].value ELSE ns[k].raw])

\* str(result) if result is not None else ""  (interpreter.py lines 99, 125)
Stringify(value) == IF value.isNone THEN <<>> ELSE value.s

(***************************************************************************)
(* Bounds and inputs                                                       *)
(***************************************************************************)
\* interpreter.py line 12
MAX_NESTING == 15

\* The deepest nesting of placeholders in the nested templates.
MaxNest == 19

\* The most top-level items a template is composed of.
MaxItems == 3

\* The number of Python frames a render call may stack before the
\* interpreter raises RecursionError: sys.getrecursionlimit() (1000 unless
\* the application changes it) less the depth of the caller, scaled down.
StackLimit == 60

Tasks == {1, 2}

\* The context object a task renders with.
Ctx(t) == [author |-> IF t = 1 THEN <<"A">> ELSE <<"Z">>]

RECURSIVE Nest(_)
\* {f:{f: ... {f:x} ... }} with k placeholders
Nest(k) == IF k = 0 THEN <<"x">> ELSE <<"{", "f", ":">> \o Nest(k - 1) \o <<"}">>

Items ==
    { <<"x">>,
      <<"{", "v", "}">>,
      <<"{", "u", "}">>,
      <<"{", "f", ":", "p", "}">>,
      <<"{", "m", ":", "q", "}">>,
      <<"{", "e", ":", "{", "f", ":", "k", "}", "}">> }

RECURSIVE Compose(_)
\* The templates of at most n items.
Compose(n) ==
    IF n = 0 THEN {<<>>}
    ELSE LET shorter == Compose(n - 1)
         IN shorter \cup {s \o i : s \in shorter, i \in Items}

Singles ==
    { <<"{", "b", "}">>,
      <<"{", "b", ":", "x", "}">>,
      <<"{", "v", ":", "x", "}">>,
      <<"{", "f", "}">>,
      <<"{", "f", ":", "x", ";", "y", "}">>,
      <<"{", "f", ":", "{", "s", "}", ";", "y", "}">>,
      <<"{", "f", ":", "{", "f", ":", "x", "}", "y", "}">>,
      <<"{", "f", ":", "a", "{", "r", "}", "c", ";", "{", "e", "}", "}">>,
      <<"{", "r", "}">>,
      <<"{", "n", "}">>,
      <<"{", "s", "}">>,
      <<"{", "b", ":", "\\", "{", "v", "\\", "}", "}">>,
      <<"{", "m", "}">>,
      <<"{", "u", ":", "{", "v", "}", ";", "\\", ";", "}">>,
      <<"{", "u", ":", "{", "f", ":", "p", "}", ";", "{", "m", ":", "q", "}", "}", "x">>,
      <<"{", "w", ":", "x", "}", "{", "v", "}">>,
      <<"a", "{", "w", ":", "{", "v", "}", "}">>,
      <<"{", "m", ":", "q", "}", "{", "f", ":", "{", "m", ":", "q", "}", "}">>,
      <<"\\", "{", "v", "\\", "}">>,
      <<"{", " ", "v", " ", "}">>,
      <<"a", "{", "b">>,
      <<"x", "{", "}", "y">> }

Templates ==
    Compose(MaxItems) \cup Singles \cup {Nest(k) : k \in MAX_NESTING..MaxNest}

\* The templates of the calls whose termination is followed to the end.
FairTemplates ==
    Compose(1) \cup Singles \cup {Nest(MAX_NESTING + 2), Nest(MaxNest)}

\* The templates two concurrent render calls are given.
ConcTemplates ==
    { <<>>,
      <<"{", "v", "}">>,
      <<"{", "u", "}">>,
      <<"{", "f", ":", "p", "}", "{", "m", ":", "q", "}">>,
      <<"{", "f", ":", "{", "v", "}", ";", "{", "m", ":", "k", "}", "}">>,
      <<"a", "{", "w", ":", "x", "}">>,
      <<"{", "e", ":", "{", "f", ":", "k", "}", "}", "c">> }

\* What the two tasks render at once: any two of ConcTemplates, or a nested
\* template (one past the depth guard, one past the stack) next to a short
\* one.
ConcWorkloads ==
    [Tasks -> ConcTemplates] \cup
    { [t \in Tasks |-> IF t = 1 THEN deep ELSE <<"{", "v", "}">>] :
          deep \in {Nest(MAX_NESTING + 2), Nest(MaxNest)} }

\* The longest string of the strings below.
MaxLen == 4

\* The characters of those strings: the five the lexer gives a meaning to
\* and a letter.
Chars == {"\\", "{", "}", ";", ":", "a"}

RECURSIVE Strings(_)
\* The strings of at most n characters.
Strings(n) ==
    IF n = 0 THEN {<<>>}
    ELSE LET shorter == Strings(n - 1)
         IN shorter \cup {Append(s, c) : s \in shorter, c \in Chars}

\* Templates with blanks, and the ones the documentation gives.
LexExamples ==
    { <<"{", " ", "}">>,
      <<"{", " ", " ", "}">>,
      <<"a", " ", "{", "}", " ", "a">>,
      <<"{", "f", ":", "{", " ", "}", "}">>,
      <<"{", "f", ":", " ", ";", "a", "}">>,
      <<"{", "f", ":", ";", "a", "}">>,
      <<"{", "f", ":", "a", ";", "}">>,
      <<"{", "f", ":", "a", ";", ";", "b", "}">>,
      <<"{", "f", ":", "1", ";", "{", "f", ":", "2", ";", "3", "}", "}">>,
      <<"{", "f", ":", "a", "\\", ";", "b", ";", "{", "u", ":", "c", ";", "d", "}", "}">>,
      <<"h", "e", "l", "l", "o", " ", "w", "o", "r", "l", "d">>,
      <<"\\", "{", "l", "i", "t", "}">>,
      <<"{", "f", ":", "a", "{", "v", "}", "{", "b">>,
      <<"{", "u", "{", "v", ":", "x", "}", ":", "y", "}">>,
      <<"{", " ", "u", "\\", ":", "v", " ", ":", "w", ":", "z", "}">> }

\* Placeholders with a colon and nothing, separators only or a blank after
\* it, of names of each kind.
ColonNames == {"v", "b", "f", "m", "r", "u"}
ColonTails == {<<>>, <<";">>, <<";", ";">>, <<" ">>}
ColonTemplates ==
    {<<"{", n, ":">> \o s \o <<"}">> : n \in ColonNames, s \in ColonTails}

\* The templates the lexer is followed on: every string of at most MaxLen
\* characters, on its own and as the arguments of a Function placeholder.
LexTemplates ==
    Strings(MaxLen)
    \cup {<<"{", "f", ":">> \o s \o <<"}">> : s \in Strings(MaxLen)}
    \cup LexExamples \cup ColonTemplates \cup Singles
    \cup {Nest(MAX_NESTING + 2), Nest(MaxNest)}

\* The most frames a nearly used up stack leaves beyond the frame of
\* Interpreter.render.
MaxShallow == 4

\* The frames a call of Interpreter.render can stack: the caller's and its
\* own (interpreter.py line 33) and at most MaxShallow more when the stack is
\* nearly used up, or all of StackLimit.
DirectLimits == 2..(2 + MaxShallow) \cup {StackLimit}

\* The templates whose nodes Interpreter.render is called with directly.
DirectTemplates ==
    { <<>>,
      <<"a">>,
      <<"a", "{", "v", "}", "b">>,
      <<"{", "f", "}", "{", "v", "}">>,
      <<"{", "f", ":", "{", "v", "}", "}", "c", "{", "r", "}">>,
      <<"{", "u", ":", "{", "v", "}", "}", "x">>,
      <<"{", "m", ":", "q", "}", "{", "f", ":", "1", "}">>,
      <<"{", "e", ":", "{", "f", ":", "k", "}", "}">>,
      Nest(MAX_NESTING + 2) }

\* The most calls made on the RenderResult objects directly.
MaxCalls == 3

\* The embeds and the emojis of those calls.
EmbedPool == {<<"E">>}
EmojiPool == {<<"q">>, <<"k">>}

\* The RenderResult objects the calls start from: their emojis without a
\* duplicate.
Results0 ==
    {[content |-> <<"x">>, embeds |-> e, emojis |-> m] :
        e \in {<<>>, <<<<"E">>>>}, m \in {<<>>, << <<"k">>, <<"q">> >>}}

(***************************************************************************)
(* State                                                                   *)
(***************************************************************************)
VARIABLES
    variables,  \* InterpolationEngine._variables
    functions,  \* InterpolationEngine._functions
    text,       \* text[t]: the template task t renders
    pc,         \* pc[t]: "idle", "lex", "eval", "await", "done" or "raised"
    lexer,      \* lexer[t]: the call stack of lex in the call
    nodes,      \* nodes[t]: the nodes lex returned to the call
    interp,     \* interp[t]: the Interpreter of the call (0: none yet)
    result,     \* result[i]: the RenderResult object i, i-th constructed
    idx,        \* idx[t]: position of Interpreter.render's for loop
    saved,      \* saved[t]: content as read at line 46 before the await
    stack,      \* stack[t]: the _eval_placeholder calls in progress
    pending,    \* pending[t]: the handler call awaited
    returned,   \* returned[t]: what the render call gave its caller
    frames,     \* frames[t]: history, deepest call nesting reached
    trace,      \* trace[t]: history, what the evaluation did, in order
    calls,      \* history, the calls made on RenderResult objects directly
    limit       \* limit[t]: the Python frames the call of task t can stack,
                \* counted from the caller of Interpreter.render (frame 1)

vars == <<variables, functions, text, pc, lexer, nodes, interp, result, idx, saved,
          stack, pending, returned, frames, trace, calls, limit>>

NoCall == [kind |-> "none", name |-> <<>>, args |-> <<>>]
NoReturn == [kind |-> "none", ref |-> 0, exc |-> "none"]

InitWith(workloads) ==
    /\ limit = [t \in Tasks |-> StackLimit]
    /\ variables = Discover("VARIABLE")
    /\ functions = Discover("FUNCTION")
    /\ text \in workloads
    /\ pc = [t \in Tasks |-> "idle"]
    /\ lexer = [t \in Tasks |-> [stack |-> <<>>, ret |-> NoRet, reach |-> 0]]
    /\ nodes = [t \in Tasks |-> <<>>]
    /\ interp = [t \in Tasks |-> 0]
    /\ result = <<>>
    /\ idx = [t \in Tasks |-> 0]
    /\ saved = [t \in Tasks |-> <<>>]
    /\ stack = [t \in Tasks |-> <<>>]
    /\ pending = [t \in Tasks |-> NoCall]
    /\ returned = [t \in Tasks |-> NoReturn]
    /\ frames = [t \in Tasks |-> 0]
    /\ trace = [t \in Tasks |-> <<>>]
    /\ calls = <<>>

\* One render call of a template; the other task renders the empty string.
Init == InitWith({[t \in Tasks |-> IF t = 1 THEN s ELSE <<>>] : s \in Templates})

\* One render call of a template of FairTemplates.
InitFair ==
    InitWith({[t \in Tasks |-> IF t = 1 THEN s ELSE <<>>] : s \in FairTemplates})

\* One render call of a template of LexTemplates.
InitLex ==
    InitWith({[t \in Tasks |-> IF t = 1 THEN s ELSE <<>>] : s \in LexTemplates})

\* Two render calls in flight.
InitConc == InitWith(ConcWorkloads)

(***************************************************************************)
(* interpreter.py: the evaluation, one step at a time.  A frame of stack[t]*)
(* is one call of _eval_placeholder that is evaluating its arguments:      *)
(* node and depth are its parameters, g and n the positions of its two     *)
(* for loops, arg_value and evaluated_args its locals.  path is history:   *)
(* where the node sits in the tree, <<top-level index, group, index, ...>>.*)
(***************************************************************************)
Top(stk) == stk[Len(stk)]
Pop(stk) == SubSeq(stk, 1, Len(stk) - 1)

\* The node the call is about to evaluate, its depth argument and its place.
CurNode(t) ==
    IF stack[t] = <<>> THEN nodes[t][idx[t]]
    ELSE LET f == Top(stack[t]) IN f.node.args[f.g][f.n]

CurDepth(t) ==
    IF stack[t] = <<>> THEN 0 ELSE Top(stack[t]).depth + 1

CurPath(t) ==
    IF stack[t] = <<>> THEN <<idx[t]>>
    ELSE LET f == Top(stack[t]) IN f.path \o <<f.g, f.n>>

\* An entry of trace[t].
Event(ev, path, depth, node, args, out) ==
    [ev |-> ev, path |-> path, depth |-> depth, name |-> node.name,
     nargs |-> Len(node.args),
     sizes |-> [g \in 1..Len(node.args) |-> Len(node.args[g])],
     raw |-> node.raw, src |-> node.src, args |-> args, out |-> out,
     handler |-> ""]

\* Variant: the Function map is consulted before the Variable map.
ResolveFunctionsFirst(node) ==
    IF node.name \in DOMAIN functions THEN "function"
    ELSE IF node.args = <<>> /\ node.name \in DOMAIN variables THEN "variable"
    ELSE "unknown"

\* _eval_placeholder's choice of a branch (lines 96, 105, 131).
Resolve(node) ==
    IF node.args = <<>> /\ node.name \in DOMAIN variables THEN "variable"
    ELSE IF node.name \in DOMAIN functions THEN "function"
    ELSE "unknown"

\* Variant: the guard compares with >= instead of >.
EvalKindOffByOne(node, depth) ==
    IF depth >= MAX_NESTING THEN "guard"
    ELSE IF node.type = "text" THEN "text"
    ELSE IF node.args = <<>> /\ node.name \in DOMAIN variables THEN "variable"
    ELSE IF node.name \in DOMAIN functions THEN "function"
    ELSE "unknown"

\* Variant: there is no depth guard.
EvalKindNoGuard(node, depth) ==
    IF node.type = "text" THEN "text" ELSE Resolve(node)

\* _eval's choice of a branch (lines 66, 70, 74).
EvalKind(node, depth) ==
    IF depth > MAX_NESTING THEN "guard"
    ELSE IF node.type = "text" THEN "text"
    ELSE Resolve(node)

RECURSIVE NextArgument(_)
\* Lines 111-116: when the nodes of the group are used up, its value joins
\* evaluated_args and the next group begins.
NextArgument(f) ==
    IF f.g <= Len(f.node.args) /\ f.n > Len(f.node.args[f.g])
    THEN NextArgument([f EXCEPT !.evaluated_args = Append(@, f.arg_value),
                                !.g = @ + 1, !.n = 1, !.arg_value = <<>>])
    ELSE f

RECURSIVE Join(_, _)
Join(parts, sep) ==
    IF Len(parts) <= 1 THEN Concat(parts)
    ELSE Head(parts) \o sep \o Join(Tail(parts), sep)

\* Variant: the evaluated arguments are joined with the separator and split
\* again before the call.
CallArgumentsResplit(f) == _split_arguments(Join(f.evaluated_args, <<";">>))

\* Lines 119-123: the arguments the Function handler is called with.
CallArguments(f) == f.evaluated_args

\* Variant: the engine keeps one Interpreter, and so one RenderResult, for
\* all its render calls.
SharedInterpreter(heap) ==
    [heap |-> IF heap = <<>> THEN <<EmptyResult>> ELSE heap, id |-> 1]

\* Variant: the lists of a new RenderResult are not new lists (a shared
\* default instead of default_factory): they hold what the last one holds.
NewInterpreterSharedLists(heap) ==
    [heap |-> Append(heap,
                  IF heap = <<>> THEN EmptyResult
                  ELSE [EmptyResult EXCEPT !.embeds = heap[Len(heap)].embeds,
                                           !.emojis = heap[Len(heap)].emojis]),
     id |-> Len(heap) + 1]

\* The Interpreter a render call evaluates with (interpolator.py line 85):
\* a new one, whose RenderResult is a new object (interpreter.py line 31).
NewInterpreter(heap) ==
    [heap |-> Append(heap, EmptyResult), id |-> Len(heap) + 1]

\* Variant: line 46 reads the content after the await, so that it adds to
\* what a handler has assigned.
DeliverReadsAfterAwait(t, stk, v, heap, events) ==
    IF stk = <<>>
    THEN LET id == interp[t]
             heap2 == [heap EXCEPT ![id].content = @ \o v]
         IN /\ result' = heap2
            /\ stack' = [stack EXCEPT ![t] = <<>>]
            /\ pending' = [pending EXCEPT ![t] = NoCall]
            /\ trace' = [trace EXCEPT ![t] = @ \o events]
            /\ IF idx[t] < Len(nodes[t])
               THEN /\ idx' = [idx EXCEPT ![t] = @ + 1]
                    /\ saved' = [saved EXCEPT ![t] = heap2[id].content]
                    /\ pc' = [pc EXCEPT ![t] = "eval"]
                    /\ returned' = returned
               ELSE /\ idx' = idx
                    /\ saved' = saved
                    /\ pc' = [pc EXCEPT ![t] = "done"]
                    /\ returned' = [returned EXCEPT ![t] =
                           [kind |-> "result", ref |-> id, exc |-> "none"]]
    ELSE LET f == NextArgument([Top(stk) EXCEPT !.arg_value = @ \o v,
                                                !.n = @ + 1])
             stk2 == [stk EXCEPT ![Len(stk)] = f]
         IN /\ result' = heap
            /\ stack' = [stack EXCEPT ![t] = stk2]
            /\ UNCHANGED <<idx, saved, returned>>
            /\ IF f.g > Len(f.node.args)
               THEN /\ pc' = [pc EXCEPT ![t] = "await"]
                    /\ pending' = [pending EXCEPT ![t] =
                           [kind |-> "function", name |-> f.node.name,
                            args |-> CallArguments(f)]]
                    /\ trace' = [trace EXCEPT ![t] = @ \o events \o
                           <<Event("call", f.path, f.depth, f.node,
                                   CallArguments(f), <<>>)>>]
               ELSE /\ pc' = [pc EXCEPT ![t] = "eval"]
                    /\ pending' = [pending EXCEPT ![t] = NoCall]
                    /\ trace' = [trace EXCEPT ![t] = @ \o events]

\* A string v comes back from the evaluation of the current node: to line 46
\* (content = the content read before the await, plus v; next node or
\* return) or to line 115 (arg_value += v; next node, next group or the
\* handler call).  stk is the stack and heap the RenderResult objects as the
\* step leaves them, events what the step adds to the trace.
Deliver(t, stk, v, heap, events) ==
    IF stk = <<>>
    THEN LET id == interp[t]
             heap2 == [heap EXCEPT ![id].content = saved[t] \o v]
         IN /\ result' = heap2
            /\ stack' = [stack EXCEPT ![t] = <<>>]
            /\ pending' = [pending EXCEPT ![t] = NoCall]
            /\ trace' = [trace EXCEPT ![t] = @ \o events]
            /\ IF idx[t] < Len(nodes[t])
               THEN /\ idx' = [idx EXCEPT ![t] = @ + 1]
                    /\ saved' = [saved EXCEPT ![t] = heap2[id].content]
                    /\ pc' = [pc EXCEPT ![t] = "eval"]
                    /\ returned' = returned
               ELSE /\ idx' = idx
                    /\ saved' = saved
                    /\ pc' = [pc EXCEPT ![t] = "done"]
                    /\ returned' = [returned EXCEPT ![t] =
                           [kind |-> "result", ref |-> id, exc |-> "none"]]
    ELSE LET f == NextArgument([Top(stk) EXCEPT !.arg_value = @ \o v,
                                                !.n = @ + 1])
             stk2 == [stk EXCEPT ![Len(stk)] = f]
         IN /\ result' = heap
            /\ stack' = [stack EXCEPT ![t] = stk2]
            /\ UNCHANGED <<idx, saved, returned>>
            /\ IF f.g > Len(f.node.args)
               THEN /\ pc' = [pc EXCEPT ![t] = "await"]
                    /\ pending' = [pending EXCEPT ![t] =
                           [kind |-> "function", name |-> f.node.name,
                            args |-> CallArguments(f)]]
                    /\ trace' = [trace EXCEPT ![t] = @ \o events \o
                           <<Event("call", f.path, f.depth, f.node,
                                   CallArguments(f), <<>>)>>]
               ELSE /\ pc' = [pc EXCEPT ![t] = "eval"]
                    /\ pending' = [pending EXCEPT ![t] = NoCall]
                    /\ trace' = [trace EXCEPT ![t] = @ \o events]

\* The call depth of _eval at a depth argument, counted from
\* InterpolationEngine.render: render, Interpreter.render, then _eval and
\* _eval_placeholder once per level.
EvalFrames(depth) == 3 + 2 * depth

Reach(t, n) == frames' = [frames EXCEPT ![t] = Max(@, n)]

\* The deepest frame the evaluation of the current node enters before it
\* returns or suspends in a handler: that of _eval for a TextNode and for a
\* node the guard stops, that of _eval_placeholder for an unknown name and
\* for a Function that has arguments to evaluate first, that of the handler
\* otherwise.
FramesNeeded(t) ==
    LET kind == EvalKind(CurNode(t), CurDepth(t))
        eval == EvalFrames(CurDepth(t))
    IN IF kind \in {"guard", "text"} THEN eval
       ELSE IF kind = "unknown" THEN eval + 1
       ELSE IF kind = "function" /\ CurNode(t).args # <<>> THEN eval + 1
       ELSE eval + 2

(***************************************************************************)
(* render_result.py used on its own: two RenderResult objects and the      *)
(* calls of their methods; calls records each call with what it offers the *)
(* object: the embeds and emojis in the order the method goes through them.*)
(***************************************************************************)
Offer(op, self, embeds, emojis) ==
    [op |-> op, self |-> self, embeds |-> embeds, emojis |-> emojis]

InitResult ==
    /\ limit = [t \in Tasks |-> StackLimit]
    /\ variables = Discover("VARIABLE")
    /\ functions = Discover("FUNCTION")
    /\ text = [t \in Tasks |-> <<>>]
    /\ pc = [t \in Tasks |-> "idle"]
    /\ lexer = [t \in Tasks |-> [stack |-> <<>>, ret |-> NoRet, reach |-> 0]]
    /\ nodes = [t \in Tasks |-> <<>>]
    /\ interp = [t \in Tasks |-> 0]
    /\ result \in [1..2 -> Results0]
    /\ idx = [t \in Tasks |-> 0]
    /\ saved = [t \in Tasks |-> <<>>]
    /\ stack = [t \in Tasks |-> <<>>]
    /\ pending = [t \in Tasks |-> NoCall]
    /\ returned = [t \in Tasks |-> NoReturn]
    /\ frames = [t \in Tasks |-> 0]
    /\ trace = [t \in Tasks |-> <<>>]
    /\ calls = [i \in 1..2 |->
                   Offer("RenderResult", i, result[i].embeds, result[i].emojis)]

Called(op, self, embeds, emojis, after) ==
    /\ Len(calls) < 2 + MaxCalls
    /\ result' = [result EXCEPT ![self] = after]
    /\ calls' = Append(calls, Offer(op, self, embeds, emojis))
    /\ UNCHANGED <<variables, functions, text, pc, lexer, nodes, interp, idx,
                   saved, stack, pending, returned, frames, trace, limit>>

\* result[self].add_embed(embed)
AddEmbed(self, embed) ==
    Called("add_embed", self, <<embed>>, <<>>, add_embed(result[self], embed))

\* result[self].add_emoji(emoji)
AddEmoji(self, emoji) ==
    Called("add_emoji", self, <<>>, <<emoji>>, add_emoji(result[self], emoji))

\* result[self].merge(result[other])
Merge(self, other) ==
    Called("merge", self, result[other].embeds, result[other].emojis,
           merge(result[self], result[other]))

NextResult ==
    \E self \in 1..2 :
        \/ \E embed \in EmbedPool : AddEmbed(self, embed)
        \/ \E emoji \in EmojiPool : AddEmoji(self, emoji)
        \/ \E other \in 1..2 : Merge(self, other)

SpecResult == InitResult /\ [][NextResult]_vars

\* interpolator.py lines 78-79: the empty template.
RenderEmpty(t) ==
    /\ pc[t] = "idle"
    /\ text[t] = <<>>
    /\ result' = Append(result, EmptyResult)
    /\ returned' = [returned EXCEPT ![t] =
           [kind |-> "result", ref |-> Len(result) + 1, exc |-> "none"]]
    /\ pc' = [pc EXCEPT ![t] = "done"]
    /\ Reach(t, 2)
    /\ UNCHANGED <<calls, limit, variables, functions, text, lexer, nodes, interp, idx, saved,
                   stack, pending, trace>>

\* interpolator.py line 82: render calls lex.
RenderLex(t) ==
    /\ pc[t] = "idle"
    /\ text[t] # <<>>
    /\ lexer' = [lexer EXCEPT ![t] = LexCall(text[t])]
    /\ pc' = [pc EXCEPT ![t] = "lex"]
    /\ Reach(t, 1 + LexCall(text[t]).reach)
    /\ UNCHANGED <<calls, limit, variables, functions, text, nodes, interp, result, idx,
                   saved, stack, pending, returned, trace>>

\* lexer.py: the lexer runs to its next call or return; m is the lexer after
\* the step, 1 + m.reach the call nesting the step reaches, counted from
\* InterpolationEngine.render.
Lex(t) ==
    /\ pc[t] = "lex"
    /\ lexer[t].stack # <<>>
    /\ \E m \in {LexStep(lexer[t])} :
          /\ 1 + m.reach <= limit[t]
          /\ lexer' = [lexer EXCEPT ![t] = m]
          /\ Reach(t, 1 + m.reach)
    /\ UNCHANGED <<calls, limit, variables, functions, text, pc, nodes, interp, result, idx,
                   saved, stack, pending, returned, trace>>

\* The lexer calls deeper than the frames that are left: the RecursionError
\* leaves lex and then render, which has no handler around line 82.
LexRecursionError(t) ==
    /\ pc[t] = "lex"
    /\ lexer[t].stack # <<>>
    /\ \E m \in {LexStep(lexer[t])} : 1 + m.reach > limit[t]
    /\ pc' = [pc EXCEPT ![t] = "raised"]
    /\ returned' = [returned EXCEPT ![t] =
           [kind |-> "raise", ref |-> 0, exc |-> "RecursionError"]]
    /\ Reach(t, limit[t])
    /\ UNCHANGED <<calls, limit, variables, functions, text, lexer, nodes, interp, result,
                   idx, saved, stack, pending, trace>>

\* interpolator.py lines 82-86 and interpreter.py lines 44-46: lex has
\* returned the nodes; a fresh Interpreter, and the for loop at its first
\* node.
RenderStart(t) ==
    /\ pc[t] = "lex"
    /\ lexer[t].stack = <<>>
    /\ LET new == NewInterpreter(result)
           lexed == lexer[t].ret.nodes
       IN /\ nodes' = [nodes EXCEPT ![t] = lexed]
          /\ interp' = [interp EXCEPT ![t] = new.id]
          /\ result' = new.heap
          /\ IF lexed = <<>>
             THEN /\ pc' = [pc EXCEPT ![t] = "done"]
                  /\ returned' = [returned EXCEPT ![t] =
                         [kind |-> "result", ref |-> new.id, exc |-> "none"]]
                  /\ UNCHANGED <<idx, saved>>
             ELSE /\ pc' = [pc EXCEPT ![t] = "eval"]
                  /\ idx' = [idx EXCEPT ![t] = 1]
                  /\ saved' = [saved EXCEPT ![t] = new.heap[new.id].content]
                  /\ returned' = returned
    /\ UNCHANGED <<calls, limit, variables, functions, text, lexer, stack, pending, frames,
                   trace>>

\* interpreter.py lines 66-67: the depth guard.
EvalDepthGuard(t) ==
    /\ pc[t] = "eval"
    /\ EvalKind(CurNode(t), CurDepth(t)) = "guard"
    /\ FramesNeeded(t) <= limit[t]
    /\ Deliver(t, stack[t], CurNode(t).raw, result,
               <<Event("guard", CurPath(t), CurDepth(t), CurNode(t), <<>>,
                       CurNode(t).raw)>>)
    /\ Reach(t, EvalFrames(CurDepth(t)))
    /\ UNCHANGED <<calls, limit, variables, functions, text, lexer, nodes, interp>>

\* interpreter.py lines 70-71: a TextNode.
EvalText(t) ==
    /\ pc[t] = "eval"
    /\ EvalKind(CurNode(t), CurDepth(t)) = "text"
    /\ FramesNeeded(t) <= limit[t]
    /\ Deliver(t, stack[t], CurNode(t).value, result,
               <<Event("text", CurPath(t), CurDepth(t), CurNode(t), <<>>,
                       CurNode(t).value)>>)
    /\ Reach(t, EvalFrames(CurDepth(t)))
    /\ UNCHANGED <<calls, limit, variables, functions, text, lexer, nodes, interp>>

\* interpreter.py lines 96-98: the Variable handler is called and awaited.
EvalVariable(t) ==
    /\ pc[t] = "eval"
    /\ EvalKind(CurNode(t), CurDepth(t)) = "variable"
    /\ FramesNeeded(t) <= limit[t]
    /\ pc' = [pc EXCEPT ![t] = "await"]
    /\ pending' = [pending EXCEPT ![t] =
           [kind |-> "variable", name |-> CurNode(t).name, args |-> <<>>]]
    /\ trace' = [trace EXCEPT ![t] = Append(@,
           Event("variable", CurPath(t), CurDepth(t), CurNode(t), <<>>, <<>>))]
    /\ Reach(t, EvalFrames(CurDepth(t)) + 2)
    /\ UNCHANGED <<calls, limit, variables, functions, text, lexer, nodes, interp, result, idx,
                   saved, stack, returned>>

\* interpreter.py lines 105-111: the Function branch begins to evaluate the
\* argument groups (and calls the handler at once when there are none).
EvalFunction(t) ==
    /\ pc[t] = "eval"
    /\ EvalKind(CurNode(t), CurDepth(t)) = "function"
    /\ FramesNeeded(t) <= limit[t]
    /\ LET f == NextArgument(
                  [node |-> CurNode(t), depth |-> CurDepth(t),
                   path |-> CurPath(t), g |-> 1, n |-> 1,
                   arg_value |-> <<>>, evaluated_args |-> <<>>])
           enter == Event("function", f.path, f.depth, f.node, <<>>, <<>>)
       IN /\ stack' = [stack EXCEPT ![t] = Append(@, f)]
          /\ IF f.g > Len(f.node.args)
             THEN /\ pc' = [pc EXCEPT ![t] = "await"]
                  /\ pending' = [pending EXCEPT ![t] =
                         [kind |-> "function", name |-> f.node.name,
                          args |-> CallArguments(f)]]
                  /\ trace' = [trace EXCEPT ![t] = @ \o
                         <<enter, Event("call", f.path, f.depth, f.node,
                                        CallArguments(f), <<>>)>>]
             ELSE /\ pc' = pc
                  /\ pending' = pending
                  /\ trace' = [trace EXCEPT ![t] = Append(@, enter)]
    /\ Reach(t, EvalFrames(CurDepth(t)) + 2)
    /\ UNCHANGED <<calls, limit, variables, functions, text, lexer, nodes, interp, result, idx,
                   saved, returned>>

\* interpreter.py line 131: the name is in neither map.
EvalUnknown(t) ==
    /\ pc[t] = "eval"
    /\ EvalKind(CurNode(t), CurDepth(t)) = "unknown"
    /\ FramesNeeded(t) <= limit[t]
    /\ Deliver(t, stack[t], CurNode(t).raw, result,
               <<Event("unknown", CurPath(t), CurDepth(t), CurNode(t), <<>>,
                       CurNode(t).raw)>>)
    /\ Reach(t, EvalFrames(CurDepth(t)) + 1)
    /\ UNCHANGED <<calls, limit, variables, functions, text, lexer, nodes, interp>>

\* The handler that is awaited (lines 97 and 106).
AwaitedHandler(t) ==
    IF pending[t].kind = "variable" THEN variables[pending[t].name]
    ELSE functions[pending[t].name]

\* What the awaited handler does when it runs to its end.
Outcome(t) ==
    IF pending[t].kind = "variable"
    THEN LET called == CallVariable(AwaitedHandler(t), Ctx(t))
         IN [raised |-> called.raised, value |-> called.value,
             result |-> result[interp[t]]]
    ELSE CallFunction(AwaitedHandler(t), Ctx(t), result[interp[t]],
                      pending[t].args)

\* The placeholder whose handler is awaited: the current node for a Variable,
\* the node of the top frame for a Function.
AwaitedNode(t) ==
    IF pending[t].kind = "variable" THEN CurNode(t) ELSE Top(stack[t]).node
AwaitedPath(t) ==
    IF pending[t].kind = "variable" THEN CurPath(t) ELSE Top(stack[t]).path
AwaitedDepth(t) ==
    IF pending[t].kind = "variable" THEN CurDepth(t) ELSE Top(stack[t]).depth

\* The stack once the awaited call of _eval_placeholder has returned.
AfterCall(t) ==
    IF pending[t].kind = "variable" THEN stack[t] ELSE Pop(stack[t])

\* The RenderResult objects once the handler has run.
AfterHandler(t) == [result EXCEPT ![interp[t]] = Outcome(t).result]

\* Variant: the two except clauses of _eval_placeholder are missing, so the
\* exception unwinds to Interpreter.render (lines 47-48), which adds the raw
\* text of the top-level node.
HandlerFailureUnwinds(t, stk, heap, events) ==
    Deliver(t, <<>>, nodes[t][idx[t]].raw, heap, events)

\* Variant: when a Function handler raises, the embeds that the handlers
\* nested in its arguments appended are taken back.
HandlerFailureRollsBack(t, stk, heap, events) ==
    LET p == events[1].path
        nested == {k \in DOMAIN trace[t] :
                      /\ trace[t][k].ev = "return"
                      /\ trace[t][k].handler = "embed_join"
                      /\ Len(p) <= Len(trace[t][k].path)
                      /\ SubSeq(trace[t][k].path, 1, Len(p)) = p}
        id == interp[t]
        kept == Len(heap[id].embeds) - Cardinality(nested)
    IN Deliver(t, stk, <<>>,
               [heap EXCEPT ![id].embeds = SubSeq(@, 1, kept)], events)

\* Variant: a handler that raised is called again.
HandlerFailureRetries(t, stk, heap, events) ==
    /\ result' = heap
    /\ trace' = [trace EXCEPT ![t] = @ \o events]
    /\ UNCHANGED <<pc, pending, stack, idx, saved, returned>>

\* interpreter.py lines 100-102 and 126-128: except Exception: return "".
HandlerFailure(t, stk, heap, events) == Deliver(t, stk, <<>>, heap, events)

\* interpreter.py lines 98-99 and 119-125: the handler returns a value.
HandlerReturns(t) ==
    /\ pc[t] = "await"
    /\ ~Outcome(t).raised
    /\ Deliver(t, AfterCall(t), Stringify(Outcome(t).value), AfterHandler(t),
               <<[Event("return", AwaitedPath(t), AwaitedDepth(t),
                        AwaitedNode(t), pending[t].args,
                        Stringify(Outcome(t).value))
                     EXCEPT !.handler = AwaitedHandler(t)]>>)
    /\ UNCHANGED <<calls, limit, variables, functions, text, lexer, nodes, interp, frames>>

\* interpreter.py lines 100-102 and 126-128: the handler raises an Exception.
HandlerRaises(t) ==
    /\ pc[t] = "await"
    /\ Outcome(t).raised
    /\ HandlerFailure(t, AfterCall(t), AfterHandler(t),
               <<[Event("raise", AwaitedPath(t), AwaitedDepth(t),
                        AwaitedNode(t), pending[t].args, <<>>)
                     EXCEPT !.handler = AwaitedHandler(t)]>>)
    /\ UNCHANGED <<calls, limit, variables, functions, text, lexer, nodes, interp, frames>>

\* Variant: the except clauses catch BaseException, so that the cancellation
\* is taken for a failure of the handler and the placeholder gives "".
CancelSwallowed(t) ==
    /\ pc[t] = "await"
    /\ Deliver(t, AfterCall(t), <<>>, result,
               <<[Event("cancel", AwaitedPath(t), AwaitedDepth(t),
                        AwaitedNode(t), pending[t].args, <<>>)
                     EXCEPT !.handler = AwaitedHandler(t)]>>)
    /\ UNCHANGED <<calls, limit, variables, functions, text, lexer, nodes, interp, frames>>

\* The task is cancelled while it awaits a handler: asyncio.CancelledError is
\* a BaseException, which neither except Exception clause (lines 47, 100,
\* 126) catches, so it leaves render.
Cancel(t) ==
    /\ pc[t] = "await"
    /\ pc' = [pc EXCEPT ![t] = "raised"]
    /\ returned' = [returned EXCEPT ![t] =
           [kind |-> "raise", ref |-> 0, exc |-> "CancelledError"]]
    /\ trace' = [trace EXCEPT ![t] = Append(@,
           [Event("cancel", AwaitedPath(t), AwaitedDepth(t), AwaitedNode(t),
                  pending[t].args, <<>>)
              EXCEPT !.handler = AwaitedHandler(t)])]
    /\ UNCHANGED <<calls, limit, variables, functions, text, lexer, nodes, interp, result, idx,
                   saved, stack, pending, frames>>

Step(t) ==
    \/ RenderEmpty(t)
    \/ RenderLex(t)
    \/ Lex(t)
    \/ LexRecursionError(t)
    \/ RenderStart(t)
    \/ EvalDepthGuard(t)
    \/ EvalText(t)
    \/ EvalVariable(t)
    \/ EvalFunction(t)
    \/ EvalUnknown(t)
    \/ HandlerReturns(t)
    \/ HandlerRaises(t)
    \/ Cancel(t)

Next == \E t \in Tasks : Step(t)

Spec == Init /\ [][Next]_vars

SpecConc == InitConc /\ [][Next]_vars

SpecLex == InitLex /\ [][Next]_vars

\* The event loop runs a task that can run: a coroutine that is not
\* suspended runs on, and an awaited handler returns, raises or is cancelled.
FairSpec == InitFair /\ [][Next]_vars /\ \A t \in Tasks : WF_vars(Step(t))

\* Render calls that follow one another on the engine: a call begins when the
\* calls before it have come to their end.
NextSeq ==
    \E t \in Tasks :
        /\ \A u \in Tasks : u < t => pc[u] \in {"done", "raised"}
        /\ Step(t)

SpecSeq == InitConc /\ [][NextSeq]_vars

(***************************************************************************)
(* interpreter.py used on its own: a caller lexes a template, constructs   *)
(* an Interpreter or takes one it has already called, and calls its render *)
(* with the nodes.  The calls follow one another.  The caller may be deep  *)
(* in the Python stack: a call that needs a frame beyond limit[t] raises   *)
(* RecursionError, which is an Exception, where the frame is entered.      *)
(***************************************************************************)
InitDirect ==
    /\ limit \in [Tasks -> DirectLimits]
    /\ variables = Discover("VARIABLE")
    /\ functions = Discover("FUNCTION")
    /\ text \in [Tasks -> DirectTemplates]
    /\ pc = [t \in Tasks |-> "idle"]
    /\ lexer = [t \in Tasks |-> [stack |-> <<>>, ret |-> NoRet, reach |-> 0]]
    /\ nodes = [t \in Tasks |-> <<>>]
    /\ interp = [t \in Tasks |-> 0]
    /\ result = <<>>
    /\ idx = [t \in Tasks |-> 0]
    /\ saved = [t \in Tasks |-> <<>>]
    /\ stack = [t \in Tasks |-> <<>>]
    /\ pending = [t \in Tasks |-> NoCall]
    /\ returned = [t \in Tasks |-> NoReturn]
    /\ frames = [t \in Tasks |-> 0]
    /\ trace = [t \in Tasks |-> <<>>]
    /\ calls = <<>>

\* The Interpreter instances a caller can call render on: a new one
\* (interpreter.py lines 29-31), or one whose render has returned.
Instances ==
    {NewInterpreter(result)}
    \cup {[heap |-> result, id |-> interp[u]] : u \in {v \in Tasks : pc[v] = "done"}}

\* interpreter.py lines 33-46: render(nodes, ctx) is called on an instance
\* with the nodes of the template; the for loop is at its first node, or
\* there is none and line 51 returns self.result.
InterpreterRender(t) ==
    /\ pc[t] = "idle"
    /\ \E instance \in Instances :
          LET lexed == lex(text[t]) IN
          /\ nodes' = [nodes EXCEPT ![t] = lexed]
          /\ interp' = [interp EXCEPT ![t] = instance.id]
          /\ result' = instance.heap
          /\ IF lexed = <<>>
             THEN /\ pc' = [pc EXCEPT ![t] = "done"]
                  /\ returned' = [returned EXCEPT ![t] =
                         [kind |-> "result", ref |-> instance.id, exc |-> "none"]]
                  /\ UNCHANGED <<idx, saved>>
             ELSE /\ pc' = [pc EXCEPT ![t] = "eval"]
                  /\ idx' = [idx EXCEPT ![t] = 1]
                  /\ saved' = [saved EXCEPT ![t] =
                         instance.heap[instance.id].content]
                  /\ returned' = returned
    /\ Reach(t, 2)
    /\ UNCHANGED <<calls, limit, variables, functions, text, lexer, stack, pending,
                   trace>>

\* Variant: after the raw text of the failing node is added, render returns.
RenderExceptReturns(t, events) ==
    /\ result' = [result EXCEPT ![interp[t]].content =
                      saved[t] \o nodes[t][idx[t]].raw]
    /\ trace' = [trace EXCEPT ![t] = @ \o events]
    /\ pc' = [pc EXCEPT ![t] = "done"]
    /\ returned' = [returned EXCEPT ![t] =
           [kind |-> "result", ref |-> interp[t], exc |-> "none"]]
    /\ UNCHANGED <<stack, pending, idx, saved>>

\* interpreter.py lines 47-49: except Exception: content += node.raw, and the
\* for loop goes on.
RenderExcept(t, events) ==
    Deliver(t, <<>>, nodes[t][idx[t]].raw, result, events)

\* The frame of _eval (line 46 or 115) or of _eval_placeholder (line 75) is
\* beyond the limit.  Neither line 75 nor the lines before the try
\* statements of _eval_placeholder are inside a try, so the RecursionError
\* leaves _eval: for a top-level node to lines 47-49, for a node of an
\* argument to the except clause of the Function around it (lines 126-128),
\* whose handler is not called.
EvalRecursionError(t) ==
    /\ pc[t] = "eval"
    /\ LET kind == EvalKind(CurNode(t), CurDepth(t))
           enters == IF kind \in {"guard", "text"}
                     THEN EvalFrames(CurDepth(t))
                     ELSE EvalFrames(CurDepth(t)) + 1
       IN /\ enters > limit[t]
          /\ IF stack[t] = <<>>
             THEN RenderExcept(t,
                      <<Event("except", CurPath(t), CurDepth(t), CurNode(t),
                              <<>>, CurNode(t).raw)>>)
             ELSE LET f == Top(stack[t]) IN
                  HandlerFailure(t, Pop(stack[t]), result,
                      <<Event("absorbed", f.path, f.depth, f.node, <<>>, <<>>)>>)
    /\ Reach(t, limit[t])
    /\ UNCHANGED <<calls, limit, variables, functions, text, lexer, nodes, interp>>

\* The frame of the handler (line 98 or 119) is beyond the limit: the
\* RecursionError is raised inside the try statement, whose except clause
\* gives "" (lines 100-102, 126-128).
HandlerRecursionError(t) ==
    /\ pc[t] = "eval"
    /\ EvalKind(CurNode(t), CurDepth(t)) \in {"variable", "function"}
    /\ EvalFrames(CurDepth(t)) + 1 <= limit[t]
    /\ FramesNeeded(t) > limit[t]
    /\ HandlerFailure(t, stack[t], result,
           <<Event("absorbed", CurPath(t), CurDepth(t), CurNode(t), <<>>, <<>>)>>)
    /\ Reach(t, limit[t])
    /\ UNCHANGED <<calls, limit, variables, functions, text, lexer, nodes, interp>>

StepDirect(t) ==
    \/ InterpreterRender(t)
    \/ EvalDepthGuard(t)
    \/ EvalText(t)
    \/ EvalVariable(t)
    \/ EvalFunction(t)
    \/ EvalUnknown(t)
    \/ EvalRecursionError(t)
    \/ HandlerRecursionError(t)
    \/ HandlerReturns(t)
    \/ HandlerRaises(t)
    \/ Cancel(t)

NextDirect ==
    \E t \in Tasks :
        /\ \A u \in Tasks : u < t => pc[u] \in {"done", "raised"}
        /\ StepDirect(t)

SpecDirect == InitDirect /\ [][NextDirect]_vars

(***************************************************************************)
(* interpreter.py run without interruption: what Interpreter.render        *)
(* returns when no other task runs between its steps and none of its       *)
(* awaits is cancelled.  out is the string a call returns, result the      *)
(* RenderResult as the call leaves it.                                     *)
(***************************************************************************)
RECURSIVE EvalAlone(_, _, _, _), EvalNodesAlone(_, _, _, _),
          EvalGroupsAlone(_, _, _, _)

\* Lines 110-116: the argument groups from the first of groups on; out is
\* evaluated_args.
EvalGroupsAlone(groups, ctx, depth, res) ==
    IF groups = <<>> THEN [out |-> <<>>, result |-> res]
    ELSE LET first == EvalNodesAlone(Head(groups), ctx, depth + 1, res)
             rest == EvalGroupsAlone(Tail(groups), ctx, depth, first.result)
         IN [out |-> <<first.out>> \o rest.out, result |-> rest.result]

\* Lines 113-115: the nodes of one group; out is arg_value.
EvalNodesAlone(ns, ctx, depth, res) ==
    IF ns = <<>> THEN [out |-> <<>>, result |-> res]
    ELSE LET first == EvalAlone(Head(ns), ctx, depth, res)
             rest == EvalNodesAlone(Tail(ns), ctx, depth, first.result)
         IN [out |-> first.out \o rest.out, result |-> rest.result]

\* _eval and _eval_placeholder (lines 53-131).
EvalAlone(node, ctx, depth, res) ==
    LET kind == EvalKind(node, depth) IN
    IF kind = "guard" \/ kind = "unknown" THEN [out |-> node.raw, result |-> res]
    ELSE IF kind = "text" THEN [out |-> node.value, result |-> res]
    ELSE IF kind = "variable"
    THEN LET called == CallVariable(variables[node.name], ctx)
         IN [out |-> IF called.raised THEN <<>> ELSE Stringify(called.value),
             result |-> res]
    ELSE LET evaluated == EvalGroupsAlone(node.args, ctx, depth, res)
             called == CallFunction(functions[node.name], ctx,
                                    evaluated.result, evaluated.out)
         IN [out |-> IF called.raised THEN <<>> ELSE Stringify(called.value),
             result |-> called.result]

RECURSIVE RenderNodesAlone(_, _, _)
\* Interpreter.render's for loop (lines 44-46) over ns: content is read
\* before the node is evaluated and assigned after.
RenderNodesAlone(ns, ctx, res) ==
    IF ns = <<>> THEN res
    ELSE LET first == EvalAlone(Head(ns), ctx, 0, res)
         IN RenderNodesAlone(Tail(ns), ctx,
                [first.result EXCEPT !.content = res.content \o first.out])

\* InterpolationEngine.render (interpolator.py lines 78-86) of a template
\* whose nodes are ns.
RenderAlone(template, ns, ctx) ==
    IF template = <<>> THEN EmptyResult
    ELSE RenderNodesAlone(ns, ctx, EmptyResult)

(***************************************************************************)
(* Properties                                                              *)
(***************************************************************************)
Finished(t) == pc[t] \in {"done", "raised"}

\* The RenderResult a finished call returned.
Returned(t) == result[returned[t].ref]

\* The names registered in each namespace.
VariableNames == {d.name : d \in {m \in Manager : m.type = "VARIABLE"}}
FunctionNames == {d.name : d \in {m \in Manager : m.type = "FUNCTION"}}

IsPrefix(p, q) == Len(p) <= Len(q) /\ SubSeq(q, 1, Len(p)) = p

IsSubstring(s, w) ==
    \E k \in 0..(Len(w) - Len(s)) : SubSeq(w, k + 1, k + Len(s)) = s

\* The events that end the evaluation of a node; out is what the node gave.
Completes(e) ==
    e.ev \in {"text", "unknown", "guard", "return", "raise", "except", "absorbed"}

\* The node at path has been evaluated; what it gave.
EvaluatedAt(t, path) ==
    \E k \in DOMAIN trace[t] : Completes(trace[t][k]) /\ trace[t][k].path = path
OutAt(t, path) ==
    trace[t][CHOOSE k \in DOMAIN trace[t] :
                 Completes(trace[t][k]) /\ trace[t][k].path = path].out

\* The handler of the placeholder at path was called with one argument for
\* each argument group, the argument being what the nodes of the group gave,
\* in their order.
CalledWithGroups(t, e) ==
    /\ Len(e.args) = e.nargs
    /\ \A g \in 1..e.nargs :
          /\ \A n \in 1..e.sizes[g] : EvaluatedAt(t, e.path \o <<g, n>>)
          /\ e.args[g] =
                 Concat([n \in 1..e.sizes[g] |-> OutAt(t, e.path \o <<g, n>>)])

\* The content a finished call returned is what its top-level nodes gave, in
\* their order.
ContentComposed(t) ==
    /\ \A i \in 1..Len(nodes[t]) : EvaluatedAt(t, <<i>>)
    /\ Returned(t).content =
           Concat([i \in 1..Len(nodes[t]) |-> OutAt(t, <<i>>)])

\* C1: whatever the template and whatever the handlers do, render returns a
\* RenderResult: no exception leaves it (the cancellation of the task, which
\* is not an Exception and comes from outside the call, apart).
RenderNeverRaises ==
    \A t \in Tasks :
        returned[t].kind = "raise" => returned[t].exc = "CancelledError"

\* C2: a top-level node is evaluated at depth 0 and a node of an argument
\* group one deeper than the placeholder around it; at depth 0..15 a node is
\* evaluated normally, at depth 16 or more it gives its raw text, and no
\* handler is called for it or for anything inside it.
DepthGuard ==
    \A t \in Tasks :
        /\ \A k \in 1..Len(stack[t]) :
              stack[t][k].depth = k - 1 /\ stack[t][k].depth <= 15
        /\ \A k \in DOMAIN trace[t] :
              LET e == trace[t][k] IN
              /\ e.depth = (Len(e.path) - 1) \div 2
              /\ (e.ev = "guard") <=> (e.depth >= 16)
              /\ e.ev = "guard" =>
                    /\ e.out = e.raw
                    /\ \A j \in DOMAIN trace[t] \ {k} :
                          ~IsPrefix(e.path, trace[t][j].path)
        /\ \A k \in 0..(MaxNest + 1) :
              returned[t].kind = "result" /\ text[t] = Nest(k) =>
                  /\ Len(Returned(t).embeds) = (IF k <= 16 THEN k ELSE 16)
                  /\ Returned(t).content = (IF k <= 16 THEN Nest(0) ELSE Nest(k - 16))

\* A call has returned in which a handler ran at depth 15 and the guard stopped
\* the node at depth 16.
DepthGuardWitness ==
    \E t \in Tasks :
        /\ returned[t].kind = "result"
        /\ \E k \in DOMAIN trace[t] : trace[t][k].ev = "guard"
        /\ \E k \in DOMAIN trace[t] :
              trace[t][k].ev = "return" /\ trace[t][k].depth = 15

\* The lexer of task t moves on: a placeholder consumes at least one
\* character, a call is never on a longer string than its caller's, and lex
\* called within lex is on a strictly shorter string.
LexerProgress(t) ==
    LET m == lexer[t] IN
    /\ m.ret.kind = "node" => m.ret.consumed >= 1
    /\ \A k \in 1..Len(m.stack) : m.stack[k].i \in 1..(Len(m.stack[k].text) + 1)
    /\ \A k \in 2..Len(m.stack) :
          Len(m.stack[k].text) <= Len(m.stack[k - 1].text)
    /\ \A j \in 1..Len(m.stack) : \A k \in (j + 1)..Len(m.stack) :
          m.stack[j].fn = "lex" /\ m.stack[k].fn = "lex" =>
              Len(m.stack[k].text) < Len(m.stack[j].text)

\* C3: every render call comes to an end (handlers return, raise or are
\* cancelled): the lexer's steps consume characters, lex calls itself on
\* strictly shorter strings only, and the evaluation descends no further than
\* the depth bound (16 calls of _eval_placeholder, depths 0..15).
RenderTerminates ==
    /\ [](\A t \in Tasks : LexerProgress(t) /\ Len(stack[t]) <= 16)
    /\ <>(\A t \in Tasks : Finished(t))

\* A call on a template nested deeper than the depth bound has returned.
RenderTerminatesWitness ==
    \E t \in Tasks :
        /\ returned[t].kind = "result"
        /\ text[t] = Nest(MAX_NESTING + 2)
        /\ \E k \in DOMAIN trace[t] : trace[t][k].ev = "guard"

\* C4: the nesting of calls in a render never exceeds a constant fixed by the
\* nesting bound of 15, whatever the template's nesting: the lexer never nests
\* more calls than the 16 levels the evaluation can reach take (3 calls for
\* each and the first lex), the evaluator never more than 16.
RecursionBounded ==
    \A t \in Tasks :
        /\ Len(lexer[t].stack) <= 3 * (MAX_NESTING + 1) + 1
        /\ Len(stack[t]) <= MAX_NESTING + 1

\* C5: a placeholder without argument groups calls the Variable of its name
\* if there is one, otherwise the Function of its name with no arguments if
\* there is one, otherwise gives its raw text; a placeholder with argument
\* groups is looked up among the Functions only, and with no Function of its
\* name gives its raw text even if a Variable has the name.
NameResolution ==
    \A t \in Tasks :
        /\ \A k \in DOMAIN trace[t] :
              LET e == trace[t][k] IN
              /\ e.ev \in {"variable", "function", "unknown"} =>
                    e.ev = (IF e.nargs = 0 /\ e.name \in VariableNames
                            THEN "variable"
                            ELSE IF e.name \in FunctionNames THEN "function"
                            ELSE "unknown")
              /\ e.ev = "call" /\ e.nargs = 0 => e.args = <<>>
              /\ e.ev = "unknown" => e.out = e.raw
              /\ e.ev \in {"return", "raise"} =>
                    e.handler = (IF e.nargs = 0 /\ e.name \in VariableNames
                                 THEN Discover("VARIABLE")[e.name]
                                 ELSE Discover("FUNCTION")[e.name])
        /\ pc[t] = "await" =>
              pending[t].kind =
                  (IF trace[t][Len(trace[t])].ev = "variable"
                   THEN "variable" ELSE "function")
        /\ returned[t].kind = "result" =>
              /\ text[t] = <<"{", "b", "}">> => Returned(t).content = <<"B">>
              /\ text[t] = <<"{", "b", ":", "x", "}">> =>
                     Returned(t).content = <<"b", "x">>
              /\ text[t] = <<"{", "v", ":", "x", "}">> =>
                     Returned(t).content = text[t]
              /\ text[t] = <<"{", "f", "}">> => Returned(t).embeds = <<<<>>>>

\* A placeholder with an argument whose name is a Variable's only has given
\* its raw text, and a name registered twice has called its Variable.
NameResolutionWitness ==
    /\ \E t \in Tasks : \E k \in DOMAIN trace[t] :
          /\ trace[t][k].ev = "unknown"
          /\ trace[t][k].nargs > 0
          /\ trace[t][k].name \in VariableNames \ FunctionNames
          /\ returned[t].kind = "result"

\* C6: when a Variable or Function handler raises, the placeholder gives the
\* empty string and the rest is evaluated as if it had returned it: the
\* enclosing placeholder's handler is called with arguments made of what all
\* the nodes of its groups gave, and the content is made of what all the
\* top-level nodes gave.
HandlerFailureContained ==
    \A t \in Tasks : \A k \in DOMAIN trace[t] :
        LET e == trace[t][k] IN
        e.ev = "raise" =>
            /\ e.out = <<>>
            /\ returned[t].kind = "result" =>
                  /\ ContentComposed(t)
                  /\ \A d \in 1..e.depth :
                        \E j \in DOMAIN trace[t] :
                            /\ trace[t][j].ev = "call"
                            /\ trace[t][j].path = SubSeq(e.path, 1, 2 * d - 1)
                            /\ CalledWithGroups(t, trace[t][j])

\* A handler raised inside an argument group that has nodes before and after
\* the failing placeholder, and the call has returned.
HandlerFailureContainedWitness ==
    \E t \in Tasks : \E k \in DOMAIN trace[t] :
        /\ trace[t][k].ev = "raise"
        /\ trace[t][k].depth = 1
        /\ returned[t].kind = "result"
        /\ \E j \in DOMAIN trace[t] :
              /\ trace[t][j].ev = "call"
              /\ IsPrefix(trace[t][j].path, trace[t][k].path)
              /\ trace[t][j].args = << <<"a", "c">>, <<>> >>

\* C7: a placeholder whose name is in neither namespace gives exactly its raw
\* source text: the span of the template from its opening to its closing
\* brace, arguments and escape backslashes included.
UnknownPassthrough ==
    \A t \in Tasks : \A k \in DOMAIN trace[t] :
        LET e == trace[t][k] IN
        e.ev = "unknown" =>
            /\ e.out = e.raw
            /\ Head(e.raw) = "{" /\ e.raw[Len(e.raw)] = "}"
            /\ IsSubstring(e.raw, text[t])
            /\ e.depth = 0 => nodes[t][e.path[1]].src = e.raw
            /\ returned[t].kind = "result" /\ Len(nodes[t]) = 1 /\ e.depth = 0 =>
                  Returned(t).content = text[t]

\* An unknown placeholder with a nested placeholder and an escaped separator in
\* its arguments has been rendered.
UnknownPassthroughWitness ==
    \E t \in Tasks :
        /\ returned[t].kind = "result"
        /\ text[t] = <<"{", "u", ":", "{", "v", "}", ";", "\\", ";", "}">>
        /\ Returned(t).content = text[t]

\* C8: a Function handler is called with exactly one string for each argument
\* group of the parsed placeholder, in the order of the groups, each string
\* being what the nodes of the group gave, whatever characters they gave.
ArgumentBoundaries ==
    \A t \in Tasks :
        /\ \A k \in DOMAIN trace[t] :
              trace[t][k].ev = "call" => CalledWithGroups(t, trace[t][k])
        /\ pc[t] = "await" /\ pending[t].kind = "function" =>
              Len(pending[t].args) = Len(Top(stack[t]).node.args)

\* A handler was called with two arguments, the first of which a nested
\* placeholder gave and holds separators and braces.
ArgumentBoundariesWitness ==
    \E t \in Tasks : \E k \in DOMAIN trace[t] :
        /\ trace[t][k].ev = "call"
        /\ trace[t][k].args = <<SyntaxText, <<"y">> >>

\* The calls of handlers that add to the embeds or the emojis, in the order
\* in which they ended.
AddsArtifact(e) ==
    \/ e.ev = "return" /\ e.handler = "embed_join"
    \/ e.ev = "return" /\ e.handler = "emoji"
    \/ e.ev = "raise" /\ e.handler = "failing_function"
ArtifactEvents(t) == SelectSeq(trace[t], AddsArtifact)

\* The embeds and the emojis those calls added.
EmbedsAdded(t) ==
    LET es == SelectSeq(trace[t],
                  LAMBDA e : e.ev = "return" /\ e.handler = "embed_join")
    IN [k \in 1..Len(es) |-> es[k].args]
EmojisAdded(t) ==
    LET es == SelectSeq(trace[t],
                  LAMBDA e : \/ e.ev = "return" /\ e.handler = "emoji"
                             \/ e.ev = "raise" /\ e.handler = "failing_function")
    IN [k \in 1..Len(es) |->
            IF es[k].handler = "emoji" THEN es[k].args[1] ELSE <<"!">>]

RECURSIVE FirstOccurrences(_)
FirstOccurrences(s) ==
    IF s = <<>> THEN <<>>
    ELSE LET front == FirstOccurrences(SubSeq(s, 1, Len(s) - 1))
         IN IF s[Len(s)] \in Range(front) THEN front
            ELSE Append(front, s[Len(s)])

\* Where two paths first differ.
Fork(p, q) ==
    CHOOSE d \in 1..Len(p) : d <= Len(q) /\ p[d] # q[d]
                               /\ SubSeq(p, 1, d - 1) = SubSeq(q, 1, d - 1)

\* The placeholder at p opens before the one at q: it encloses it or stands
\* to its left.
OpensBefore(p, q) ==
    IF IsPrefix(p, q) THEN p # q
    ELSE ~IsPrefix(q, p) /\ p[Fork(p, q)] < q[Fork(p, q)]

\* The placeholder at p closes before the one at q: it is inside it or
\* stands to its left.
ClosesBefore(p, q) ==
    IF IsPrefix(q, p) THEN p # q
    ELSE ~IsPrefix(p, q) /\ p[Fork(p, q)] < q[Fork(p, q)]

\* The RenderResult holds what the handlers added, in the order given.
ArtifactsInOrder(t, Before(_, _)) ==
    interp[t] # 0 =>
        /\ result[interp[t]].embeds = EmbedsAdded(t)
        /\ result[interp[t]].emojis = FirstOccurrences(EmojisAdded(t))
        /\ \A i \in 1..Len(ArtifactEvents(t)) :
              \A j \in (i + 1)..Len(ArtifactEvents(t)) :
                  Before(ArtifactEvents(t)[i].path, ArtifactEvents(t)[j].path)

\* C9 as stated: the embeds and emojis stand in the RenderResult in the
\* left-to-right order in which their placeholders appear (open) in the
\* template, nested placeholders included.
ArtifactsInOpeningOrder == \A t \in Tasks : ArtifactsInOrder(t, OpensBefore)

\* C9: the embeds and emojis stand in the RenderResult in the order in which
\* the handlers were called: those of placeholders nested in the arguments of
\* a placeholder before its own, otherwise left to right (the order of the
\* closing braces); an emoji that is already there is not added again.
ArtifactsInClosingOrder == \A t \in Tasks : ArtifactsInOrder(t, ClosesBefore)

\* A placeholder and the placeholder nested in it have both added an embed.
ArtifactsInClosingOrderWitness ==
    \E t \in Tasks :
        /\ returned[t].kind = "result"
        /\ Returned(t).embeds = << <<<<"x">>>>, <<<<"x", "y">>>> >>

\* C10: when two render calls are in flight at once and interleave at the
\* handler awaits, the RenderResult either call returns is, in content,
\* embeds and emojis, the one that call returns when it runs alone, and no two
\* calls return the same RenderResult object.
RenderIsolated ==
    \A t \in Tasks :
        returned[t].kind = "result" =>
            /\ Returned(t) = RenderAlone(text[t], nodes[t], Ctx(t))
            /\ \A u \in Tasks \ {t} :
                   returned[u].kind = "result" => returned[u].ref # returned[t].ref

\* Both calls were suspended in a handler at once, and both have returned a
\* result made by handlers.
RenderIsolatedWitness ==
    /\ \A t \in Tasks : returned[t].kind = "result" /\ Returned(t).embeds # <<>>
    /\ Returned(1).content # Returned(2).content

\* What a call's RenderResult holds is what that call produced: the embeds
\* and emojis its handlers added and, once it has returned, the content its
\* top-level nodes gave.
HoldsOwnProduce(t) ==
    /\ interp[t] # 0 =>
          /\ result[interp[t]].embeds = EmbedsAdded(t)
          /\ result[interp[t]].emojis = FirstOccurrences(EmojisAdded(t))
    /\ returned[t].kind = "result" =>
          /\ Returned(t).embeds = EmbedsAdded(t)
          /\ Returned(t).emojis = FirstOccurrences(EmojisAdded(t))
          /\ ContentComposed(t)

\* C11: in a sequence of render calls on one engine, the RenderResult of a
\* call holds only the content, embeds and emojis produced during that call,
\* no step of a later call changes a RenderResult that was returned, and the
\* engine's variable and function maps stay as they were built.
RenderCallsFresh ==
    /\ [](\A t \in Tasks : HoldsOwnProduce(t))
    /\ [](variables = Discover("VARIABLE") /\ functions = Discover("FUNCTION"))
    /\ [][/\ variables' = variables
          /\ functions' = functions
          /\ \A t \in Tasks :
                returned[t].kind = "result" =>
                    /\ returned'[t] = returned[t]
                    /\ result'[returned[t].ref] = result[returned[t].ref]]_vars

\* The first call has returned a result with an embed and an emoji; the
\* second call, begun after it, has returned one with another embed and
\* another emoji.
RenderCallsFreshWitness ==
    /\ returned[1].kind = "result" /\ returned[2].kind = "result"
    /\ Returned(1).embeds = << << <<"p">> >> >>
    /\ Returned(1).emojis = << <<"q">> >>
    /\ Returned(2).embeds = << << <<"k">> >> >>
    /\ Returned(2).emojis = << <<"!">> >>

(***************************************************************************)
(* The template syntax, said of the positions of a string without          *)
(* following the lexer: what is escaped, what a brace matches, where the   *)
(* arguments are separated.                                                *)
(***************************************************************************)
RECURSIVE BackslashesBefore(_, _)
\* The backslashes that stand in a row right before position k of s.
BackslashesBefore(s, k) ==
    IF k > 1 /\ s[k - 1] = "\\" THEN 1 + BackslashesBefore(s, k - 1) ELSE 0

\* The character at k is escaped: the backslashes before it pair off but for
\* the last one.
Escaped(s, k) == BackslashesBefore(s, k) % 2 = 1

\* The character c stands at k with its syntactic meaning.
Unescaped(s, k, c) == s[k] = c /\ ~Escaped(s, k)

\* The backslash at k escapes one of the five characters after it.
Escapes(s, k) ==
    /\ Unescaped(s, k, "\\")
    /\ k < Len(s)
    /\ s[k + 1] \in {"{", "}", "\\", ";", ":"}

RECURSIVE UnescapeFrom(_, _)
UnescapeFrom(s, k) ==
    IF k > Len(s) THEN <<>>
    ELSE (IF Escapes(s, k) THEN <<>> ELSE <<s[k]>>) \o UnescapeFrom(s, k + 1)

\* s without the backslashes that escape.
Unescape(s) == UnescapeFrom(s, 1)

\* The template of task t is <<"{", "f", ":">> \o body \o <<"}">>, the body
\* without a brace or a separator that is not escaped, and not empty.
PlainArgument(t) ==
    LET s == text[t] IN
    /\ Len(s) > 4
    /\ SubSeq(s, 1, 3) = <<"{", "f", ":">>
    /\ Unescaped(s, Len(s), "}")
    /\ \A k \in 4..(Len(s) - 1) :
          ~Unescaped(s, k, "{") /\ ~Unescaped(s, k, "}") /\ ~Unescaped(s, k, ";")

\* C12: in text outside the placeholders and in the text of the arguments of
\* a Function placeholder, a backslash right before one of { } \ ; : is
\* dropped and the character after it goes to the output without its
\* syntactic meaning; any other backslash, the last character of the text
\* included, is kept.  (The text from an unclosed brace on and an empty brace
\* pair are not text the lexer scans as such: they are kept as they are.)
EscapesDropped ==
    \A t \in Tasks :
        /\ \A k \in DOMAIN trace[t] :
              LET e == trace[t][k] IN
              e.ev = "text" /\ Head(e.src) # "{" => e.out = Unescape(e.src)
        /\ returned[t].kind = "result" =>
              /\ (\A k \in DOMAIN text[t] : ~Unescaped(text[t], k, "{")) =>
                    /\ Returned(t).content = Unescape(text[t])
                    /\ \A k \in DOMAIN trace[t] : trace[t][k].ev = "text"
              /\ PlainArgument(t) =>
                    /\ Len(Returned(t).embeds) = 1
                    /\ Returned(t).embeds[1] =
                           <<Unescape(SubSeq(text[t], 4, Len(text[t]) - 1))>>

\* A Function was called with one argument that was written with an escaped
\* separator and a backslash before a letter.
EscapesDroppedWitness ==
    \E t \in Tasks :
        /\ returned[t].kind = "result"
        /\ text[t] = <<"{", "f", ":", "\\", ";", "\\", "a", "}">>
        /\ Returned(t).embeds = << << <<";", "\\", "a">> >> >>

\* The braces that are not escaped in s[a..b]: the opening ones less the
\* closing ones.
BraceDepth(s, a, b) ==
    Cardinality({k \in a..b : Unescaped(s, k, "{")})
    - Cardinality({k \in a..b : Unescaped(s, k, "}")})

\* The position of the brace that matches the opening brace at p, 0 if none
\* does before the end of s.
Match(s, p) ==
    LET closing == {m \in p..Len(s) : BraceDepth(s, p, m) = 0}
    IN IF closing = {} THEN 0
       ELSE CHOOSE m \in closing : \A n \in closing : m <= n

RECURSIVE UnclosedFrom(_, _)
\* The position, from k on, of the first opening brace outside a closed
\* placeholder that no brace matches; 0 if there is none.
UnclosedFrom(s, k) ==
    IF k > Len(s) THEN 0
    ELSE IF Unescaped(s, k, "{")
    THEN IF Match(s, k) = 0 THEN k ELSE UnclosedFrom(s, Match(s, k) + 1)
    ELSE UnclosedFrom(s, k + 1)

\* C13: when an opening brace that is not escaped has no matching closing
\* brace before the end of the template, the rest of the template from that
\* brace on is one TextNode that holds it as it is, nothing in it is
\* evaluated as a placeholder, and render gives it unchanged.
UnclosedIsLiteral ==
    \A t \in Tasks :
        LET p == UnclosedFrom(text[t], 1)
            rest == SubSeq(text[t], p, Len(text[t]))
            last == nodes[t][Len(nodes[t])]
        IN interp[t] # 0 /\ p # 0 =>
              /\ last.type = "text"
              /\ last.value = rest /\ last.raw = rest /\ last.src = rest
              /\ \A k \in DOMAIN trace[t] :
                    IsPrefix(<<Len(nodes[t])>>, trace[t][k].path) =>
                        trace[t][k].ev = "text" /\ trace[t][k].out = rest
              /\ returned[t].kind = "result" =>
                    /\ ContentComposed(t)
                    /\ OutAt(t, <<Len(nodes[t])>>) = rest
                    /\ text[t] = <<"a", "{", "b">> =>
                           Returned(t).content = <<"a", "{", "b">>

\* A template has been rendered whose first brace is unclosed and has a closed
\* placeholder after it, which was not evaluated.
UnclosedIsLiteralWitness ==
    \E t \in Tasks :
        /\ returned[t].kind = "result"
        /\ text[t] = <<"{", "f", ":", "a", "{", "v", "}", "{", "b">>
        /\ Returned(t).content = text[t]
        /\ Len(nodes[t]) = 1

RECURSIVE Tree(_)
\* The nodes of a list of nodes and, with each, the nodes of its argument
\* groups.
Tree(ns) ==
    UNION {{ns[k]} \cup UNION {Tree(ns[k].args[g]) : g \in DOMAIN ns[k].args} :
               k \in DOMAIN ns}

\* span is a pair of braces with nothing or only whitespace between them.
EmptyPair(span) ==
    /\ Len(span) >= 2
    /\ Head(span) = "{"
    /\ span[Len(span)] = "}"
    /\ \A k \in 2..(Len(span) - 1) : span[k] = " "

\* C14: a closed pair of braces with nothing or only whitespace inside is a
\* TextNode that holds exactly the pair, at the top level and in an argument,
\* never a PlaceholderNode: nothing is looked up for it, and it goes to the
\* output as it is.
EmptyPlaceholderIsText ==
    \A t \in Tasks :
        /\ \A n \in Tree(nodes[t]) :
              /\ EmptyPair(n.src) =>
                    n.type = "text" /\ n.value = n.src /\ n.raw = n.src
              /\ n.type = "placeholder" => ~EmptyPair(n.raw)
        /\ \A k \in DOMAIN trace[t] :
              LET e == trace[t][k] IN
              EmptyPair(e.src) => e.ev \in {"text", "guard"} /\ e.out = e.src
        /\ returned[t].kind = "result" =>
              /\ text[t] = <<"a", " ", "{", "}", " ", "a">> =>
                    Returned(t).content = text[t] /\ Len(nodes[t]) = 3
              /\ text[t] = <<"{", " ", " ", "}">> =>
                    Returned(t).content = text[t] /\ Len(trace[t]) = 1

\* A pair of braces around a blank was an argument of a Function, which was
\* called with the pair as it stands.
EmptyPlaceholderIsTextWitness ==
    \E t \in Tasks :
        /\ returned[t].kind = "result"
        /\ text[t] = <<"{", "f", ":", "{", " ", "}", "}">>
        /\ Returned(t).embeds = << << <<"{", " ", "}">> >> >>

\* What stands between the braces of a placeholder.
Inner(raw) == SubSeq(raw, 2, Len(raw) - 1)

\* The positions of the character c in s where it is not escaped and not
\* inside braces.
AtDepth0(s, c) ==
    {k \in 1..Len(s) : Unescaped(s, k, c) /\ BraceDepth(s, 1, k - 1) = 0}

\* The argument portion of a placeholder: what follows the first colon that is
\* not escaped and not inside braces; nothing without such a colon.
ArgsPortion(raw) ==
    LET inner == Inner(raw)
        colons == AtDepth0(inner, ":")
    IN IF colons = {} THEN <<>>
       ELSE SubSeq(inner, 1 + (CHOOSE k \in colons : \A j \in colons : k <= j),
                   Len(inner))

\* The positions an argument portion is separated at.
Separators(s) == AtDepth0(s, ";")

RECURSIVE SpansFrom(_, _, _)
\* The spans of s from k on that the positions seps leave between them, the
\* empty ones left out.
SpansFrom(s, seps, k) ==
    IF k > Len(s) + 1 THEN <<>>
    ELSE LET ahead == {j \in seps : j >= k} \cup {Len(s) + 1}
             next == CHOOSE j \in ahead : \A i \in ahead : j <= i
             span == SubSeq(s, k, next - 1)
         IN (IF span = <<>> THEN <<>> ELSE <<span>>)
            \o SpansFrom(s, seps, next + 1)

\* The span of the argument portion the nodes of a group were lexed from.
GroupSource(group) == Concat([n \in DOMAIN group |-> group[n].src])

\* C15: the argument portion of a placeholder is separated only at the
\* semicolons that are not escaped and stand at brace depth 0: the groups are
\* the spans between those, so that a semicolon inside a nested placeholder
\* or after a backslash begins no argument.
SplitAtDepth0Only ==
    \A t \in Tasks :
        /\ \A n \in Tree(nodes[t]) :
              n.type = "placeholder" =>
                  LET portion == ArgsPortion(n.raw) IN
                  [g \in DOMAIN n.args |-> GroupSource(n.args[g])]
                      = SpansFrom(portion, Separators(portion), 1)
        /\ \A k \in DOMAIN trace[t] :
              LET e == trace[t][k] IN
              /\ e.ev = "call" /\ e.depth = 0 /\ text[t] =
                     <<"{", "f", ":", "1", ";", "{", "f", ":", "2", ";", "3", "}", "}">>
                 => e.args = << <<"1">>, <<"2", "3">> >>
              /\ e.ev = "call" /\ e.depth = 0 /\ text[t] =
                     <<"{", "f", ":", "a", "\\", ";", "b", ";",
                       "{", "u", ":", "c", ";", "d", "}", "}">>
                 => e.args = << <<"a", ";", "b">>,
                                <<"{", "u", ":", "c", ";", "d", "}">> >>

\* A Function was called with two arguments, the second given by a nested
\* placeholder with two arguments of its own.
SplitAtDepth0OnlyWitness ==
    \E t \in Tasks : \E k \in DOMAIN trace[t] :
        /\ trace[t][k].ev = "call" /\ trace[t][k].depth = 0
        /\ text[t] =
              <<"{", "f", ":", "1", ";", "{", "f", ":", "2", ";", "3", "}", "}">>
        /\ trace[t][k].args = << <<"1">>, <<"2", "3">> >>

\* The spans between the separators of s that are not empty, each as its
\* first and last position.
FilledSpans(s) ==
    LET marks == {0, Len(s) + 1} \cup Separators(s)
    IN {span \in marks \X marks :
           /\ span[1] + 1 < span[2]
           /\ \A m \in marks : ~(span[1] < m /\ m < span[2])}

\* The number of arguments the Function of the template of task t was called
\* with at the top level, -1 if it was not called.
TopLevelArity(t) ==
    IF \E k \in DOMAIN trace[t] : trace[t][k].ev = "call" /\ trace[t][k].depth = 0
    THEN Len(trace[t][CHOOSE k \in DOMAIN trace[t] :
                 trace[t][k].ev = "call" /\ trace[t][k].depth = 0].args)
    ELSE -1

\* C16: no argument is empty: a placeholder has one argument group for each
\* span between separators that is not empty, the empty spans at the start,
\* inside and at the end being dropped, and every group holds a node.
NoEmptyArgument ==
    \A t \in Tasks :
        /\ \A n \in Tree(nodes[t]) :
              n.type = "placeholder" =>
                  /\ Len(n.args) = Cardinality(FilledSpans(ArgsPortion(n.raw)))
                  /\ \A g \in DOMAIN n.args :
                        n.args[g] # <<>> /\ GroupSource(n.args[g]) # <<>>
        /\ returned[t].kind = "result" =>
              /\ text[t] = <<"{", "f", ":", ";", "a", "}">> => TopLevelArity(t) = 1
              /\ text[t] = <<"{", "f", ":", "a", ";", "}">> => TopLevelArity(t) = 1
              /\ text[t] = <<"{", "f", ":", "a", ";", ";", "b", "}">> =>
                    TopLevelArity(t) = 2

\* A Function whose arguments were written with an empty span inside was
\* called with the two arguments that are not empty.
NoEmptyArgumentWitness ==
    \E t \in Tasks :
        /\ returned[t].kind = "result"
        /\ text[t] = <<"{", "f", ":", "a", ";", ";", "b", "}">>
        /\ Returned(t).embeds = << << <<"a">>, <<"b">> >> >>

\* C17: a template without an opening brace and without a backslash is
\* rendered to itself: the content is the template, there are no embeds and
\* no emojis, and no handler is called.
PlainTextIdentity ==
    \A t \in Tasks :
        (\A k \in DOMAIN text[t] : text[t][k] \notin {"{", "\\"}) =>
            /\ \A k \in DOMAIN trace[t] : trace[t][k].ev = "text"
            /\ pc[t] # "await" /\ pc[t] # "raised"
            /\ returned[t].kind = "result" =>
                  Returned(t) = [content |-> text[t], embeds |-> <<>>,
                                 emojis |-> <<>>]

\* A plain text with closing braces and separators in it has been rendered.
PlainTextIdentityWitness ==
    \E t \in Tasks :
        /\ returned[t].kind = "result"
        /\ text[t] = <<"a", "}", ";", ":">>
        /\ Returned(t).content = text[t]

\* C18: when the task is cancelled while a handler is awaited, the
\* interpreter puts neither the empty string nor the raw text in the place of
\* the placeholder and evaluates nothing more: the cancellation leaves render,
\* which returns no RenderResult.
CancellationPropagates ==
    \A t \in Tasks : \A k \in DOMAIN trace[t] :
        LET e == trace[t][k] IN
        e.ev = "cancel" =>
            /\ k = Len(trace[t])
            /\ trace[t][k - 1].ev \in {"variable", "call"}
            /\ trace[t][k - 1].path = e.path
            /\ ~EvaluatedAt(t, e.path)
            /\ pc[t] = "raised"
            /\ returned[t] = [kind |-> "raise", ref |-> 0, exc |-> "CancelledError"]

\* The task was cancelled in the handler of a nested placeholder, after the
\* content had begun.
CancellationPropagatesWitness ==
    \E t \in Tasks :
        /\ trace[t] # <<>>
        /\ trace[t][Len(trace[t])].ev = "cancel"
        /\ trace[t][Len(trace[t])].depth = 1
        /\ result[interp[t]].content # <<>>
        /\ returned[t].kind = "raise"

\* What the calls made on the RenderResult object i offered it, in the order
\* of the calls.
OfferedEmbeds(i) ==
    Concat([k \in DOMAIN calls |->
               IF calls[k].self = i THEN calls[k].embeds ELSE <<>>])
OfferedEmojis(i) ==
    Concat([k \in DOMAIN calls |->
               IF calls[k].self = i THEN calls[k].emojis ELSE <<>>])

NoDuplicates(s) == \A j, k \in DOMAIN s : s[j] = s[k] => j = k

\* C19: from a RenderResult whose emojis have no duplicate, after any calls
\* of add_emoji and merge the emojis still have none, hold every emoji that
\* was offered and stand in the order in which they were first seen;
\* add_embed and merge append the embeds in the order of the calls and keep
\* the duplicates.
ResultListsKept ==
    \A i \in DOMAIN result :
        /\ NoDuplicates(result[i].emojis)
        /\ Range(result[i].emojis) = Range(OfferedEmojis(i))
        /\ result[i].emojis = FirstOccurrences(OfferedEmojis(i))
        /\ result[i].embeds = OfferedEmbeds(i)

\* An object was merged into another that held one of its emojis and its
\* embed already: the emoji stands once, the embed twice.
ResultListsKeptWitness ==
    \E k \in DOMAIN calls :
        LET c == calls[k] IN
        /\ c.op = "merge"
        /\ c.embeds = <<<<"E">>>>
        /\ c.emojis = << <<"k">>, <<"q">> >>
        /\ result[c.self].embeds = <<<<"E">>, <<"E">>>>
        /\ result[c.self].emojis = << <<"q">>, <<"k">> >>

\* C20: the raw field of every node the lexer produces, at the top level and
\* inside the argument groups, is the exact span of the input the node was
\* lexed from, and so the raw fields of the top-level nodes put together are
\* the input.
RawIsSource ==
    \A t \in Tasks :
        interp[t] # 0 =>
            /\ \A n \in Tree(nodes[t]) : n.raw = n.src
            /\ Concat([k \in DOMAIN nodes[t] |-> nodes[t][k].raw]) = text[t]

\* The first position of the character c in s where it is not escaped and not
\* inside braces, 0 if there is none.
FirstAtDepth0(s, c) ==
    LET at == AtDepth0(s, c)
    IN IF at = {} THEN 0 ELSE CHOOSE k \in at : \A j \in at : k <= j

\* C21: what stands between the braces of a closed placeholder is split at
\* its first colon that is not escaped and not inside nested braces: the
\* name is what stands before it, the argument portion what stands after it,
\* and an escaped colon or one inside nested braces splits nothing.  Without
\* such a colon the placeholder has no arguments and its name is all that
\* stands between the braces.  The name is without the whitespace around it.
NameSplitAtFirstColon ==
    \A t \in Tasks :
        /\ \A n \in Tree(nodes[t]) :
              n.type = "placeholder" =>
                  LET inner == Inner(n.raw)
                      colon == FirstAtDepth0(inner, ":")
                      portion == SubSeq(inner, colon + 1, Len(inner))
                  IN IF colon = 0
                     THEN n.name = strip(inner) /\ n.args = <<>>
                     ELSE /\ n.name = strip(SubSeq(inner, 1, colon - 1))
                          /\ [g \in DOMAIN n.args |-> GroupSource(n.args[g])]
                                 = SpansFrom(portion, Separators(portion), 1)
        /\ interp[t] # 0 =>
              /\ text[t] = <<"{", "u", "{", "v", ":", "x", "}", ":", "y", "}">> =>
                    /\ nodes[t][1].name = <<"u", "{", "v", ":", "x", "}">>
                    /\ Len(nodes[t][1].args) = 1
              /\ text[t] = <<"{", "\\", ":", "}">> =>
                    /\ nodes[t][1].name = <<"\\", ":">>
                    /\ nodes[t][1].args = <<>>
              /\ text[t] = <<"{", " ", "v", " ", "}">> =>
                    /\ nodes[t][1].name = <<"v">>
                    /\ nodes[t][1].args = <<>>

\* A placeholder was lexed whose name holds an escaped colon and has blanks
\* around it, and whose one argument holds a colon.
NameSplitAtFirstColonWitness ==
    \E t \in Tasks :
        /\ interp[t] # 0
        /\ text[t] = <<"{", " ", "u", "\\", ":", "v", " ", ":", "w", ":", "z", "}">>
        /\ Len(nodes[t]) = 1
        /\ nodes[t][1].name = <<"u", "\\", ":", "v">>
        /\ Len(nodes[t][1].args) = 1
        /\ GroupSource(nodes[t][1].args[1]) = <<"w", ":", "z">>

\* The events of a handler being called, and of the call coming to its end.
Invokes(e) == e.ev \in {"variable", "call"}
Ends(e) == e.ev \in {"return", "raise", "cancel"}

\* The handlers that came to their end in the call of task t, in that order.
HandlersRun(t) ==
    LET ended == SelectSeq(trace[t], Ends)
    IN [k \in DOMAIN ended |-> ended[k].handler]

\* The placeholder at p comes before the one at q in the order of the calls:
\* it is nested in it, or it stands to the left of it.
CalledBefore(p, q) ==
    IF IsPrefix(q, p) THEN p # q
    ELSE IF IsPrefix(p, q) THEN FALSE
    ELSE LET i == CHOOSE i \in 1..Len(p) :
                      /\ p[i] # q[i]
                      /\ \A j \in 1..(i - 1) : p[j] = q[j]
         IN p[i] < q[i]

\* C22: within one render call the handlers are called one at a time, each
\* awaited to its end before the next is called: the top-level nodes from the
\* left to the right, the argument groups from the left to the right, the
\* placeholders nested in the arguments of a Function before the handler of
\* the Function.  The handler of a placeholder that is evaluated is called
\* once, also when it raises.
HandlersInSequence ==
    \A t \in Tasks :
        /\ \A k \in DOMAIN trace[t] :
              LET e == trace[t][k] IN
              /\ Invokes(e) =>
                    IF k = Len(trace[t])
                    THEN pc[t] = "await"
                    ELSE /\ Ends(trace[t][k + 1])
                         /\ trace[t][k + 1].path = e.path
              /\ Ends(e) =>
                    /\ k > 1
                    /\ Invokes(trace[t][k - 1])
                    /\ trace[t][k - 1].path = e.path
              /\ \A j \in DOMAIN trace[t] :
                    j < k /\ Invokes(trace[t][j]) /\ Invokes(e) =>
                        CalledBefore(trace[t][j].path, e.path)
        /\ pc[t] = "await" <=>
              trace[t] # <<>> /\ Invokes(trace[t][Len(trace[t])])
        /\ returned[t].kind = "result" =>
              /\ \A k \in DOMAIN trace[t] :
                    trace[t][k].ev = "function" =>
                        Cardinality({j \in DOMAIN trace[t] :
                            /\ trace[t][j].ev = "call"
                            /\ trace[t][j].path = trace[t][k].path}) = 1
              /\ text[t] = <<"{", "f", ":", "a", "{", "r", "}", "c", ";",
                             "{", "e", "}", "}">> =>
                    HandlersRun(t) =
                        <<"failing_variable", "failing_function", "embed_join">>
              /\ text[t] = <<"{", "e", ":", "{", "f", ":", "k", "}", "}",
                             "{", "m", ":", "q", "}", "{", "v", "}">> =>
                    HandlersRun(t) =
                        <<"embed_join", "failing_function", "emoji", "author">>

\* A call has returned in which a handler nested in the first argument
\* raised, the handler of the second argument raised after it, and the
\* handler of the Function around them was called last.
HandlersInSequenceWitness ==
    \E t \in Tasks :
        /\ returned[t].kind = "result"
        /\ HandlersRun(t) =
               <<"failing_variable", "failing_function", "embed_join">>
        /\ Cardinality({k \in DOMAIN trace[t] : Invokes(trace[t][k])}) = 3

RECURSIVE InTree(_, _), NodeAt(_, _)
\* path leads to a node of the list of nodes ns; that node.
InTree(ns, path) ==
    /\ path # <<>>
    /\ path[1] \in DOMAIN ns
    /\ \/ Len(path) = 1
       \/ /\ Len(path) >= 3
          /\ path[2] \in DOMAIN ns[path[1]].args
          /\ InTree(ns[path[1]].args[path[2]], SubSeq(path, 3, Len(path)))
NodeAt(ns, path) ==
    IF Len(path) = 1 THEN ns[path[1]]
    ELSE NodeAt(ns[path[1]].args[path[2]], SubSeq(path, 3, Len(path)))

\* C25: the string a handler returns goes to the output, or to the argument
\* around the placeholder, as it is, and is not lexed again: the nodes that
\* are evaluated are the nodes of the template only, so that a placeholder,
\* a separator or a colon in a returned string calls no handler, and an
\* escape in it keeps its backslash.
ReturnedTextVerbatim ==
    \A t \in Tasks :
        /\ \A k \in DOMAIN trace[t] :
              LET e == trace[t][k] IN
              /\ InTree(nodes[t], e.path)
              /\ NodeAt(nodes[t], e.path).raw = e.raw
              /\ NodeAt(nodes[t], e.path).name = e.name
              /\ e.ev = "return" /\ e.handler = "syntax_variable" =>
                    e.out = SyntaxText
              /\ e.ev = "call" => CalledWithGroups(t, e)
        /\ returned[t].kind = "result" =>
              /\ ContentComposed(t)
              /\ text[t] = <<"{", "s", "}">> =>
                    /\ Returned(t).content = SyntaxText
                    /\ HandlersRun(t) = <<"syntax_variable">>
              /\ text[t] = <<"{", "f", ":", "{", "s", "}", ";", "y", "}">> =>
                    /\ Returned(t).content = SyntaxText \o <<"y">>
                    /\ Returned(t).embeds = << <<SyntaxText, <<"y">> >> >>
                    /\ HandlersRun(t) = <<"syntax_variable", "embed_join">>
              /\ text[t] = <<"{", "b", ":", "\\", "{", "v", "\\", "}", "}">> =>
                    /\ Returned(t).content = <<"b", "{", "v", "}">>
                    /\ HandlersRun(t) = <<"both_function">>

\* A Function was called with what a nested Variable returned, syntax and
\* all, as its first argument, and gave it on to the content.
ReturnedTextVerbatimWitness ==
    \E t \in Tasks :
        /\ returned[t].kind = "result"
        /\ text[t] = <<"{", "f", ":", "{", "s", "}", ";", "y", "}">>
        /\ Returned(t).content = SyntaxText \o <<"y">>
        /\ Len(Returned(t).embeds[1]) = 2

\* What the top-level nodes before the i-th gave, put together.
GivenBefore(t, i) == Concat([j \in 1..(i - 1) |-> OutAt(t, <<j>>)])

\* The handler set_content, which assigns to the content of the RenderResult
\* it is given, has returned in the call of task t.
ContentAssigned(t) ==
    \E k \in DOMAIN trace[t] :
        trace[t][k].ev = "return" /\ trace[t][k].handler = "set_content"

\* C26: what a Function handler assigns to the content of the RenderResult
\* while a top-level node is evaluated is overwritten when the node has been
\* evaluated: the content is then what it was before the node, followed by
\* what the node gave.
ContentAssignmentOverwritten ==
    \A t \in Tasks :
        /\ pc[t] \in {"eval", "await"} =>
              /\ \A j \in 1..(idx[t] - 1) : EvaluatedAt(t, <<j>>)
              /\ saved[t] = GivenBefore(t, idx[t])
              /\ pc[t] = "eval" /\ stack[t] = <<>> =>
                    result[interp[t]].content = saved[t]
        /\ returned[t].kind = "result" =>
              /\ \A j \in 1..Len(nodes[t]) : EvaluatedAt(t, <<j>>)
              /\ Returned(t).content = GivenBefore(t, Len(nodes[t]) + 1)
              /\ text[t] = <<"{", "w", ":", "x", "}", "{", "v", "}">> =>
                    Returned(t).content = <<"x", "A">>
              /\ text[t] = <<"a", "{", "w", ":", "{", "v", "}", "}">> =>
                    Returned(t).content = <<"a", "A">>

\* The handler has assigned to the content after a text had been added to
\* it, and the call has returned the text followed by what the handler
\* returned.
ContentAssignmentOverwrittenWitness ==
    \E t \in Tasks :
        /\ returned[t].kind = "result"
        /\ ContentAssigned(t)
        /\ text[t] = <<"a", "{", "w", ":", "{", "v", "}", "}">>
        /\ Returned(t).content = <<"a", "A">>

\* C27: when a Function handler raises after the placeholders nested in its
\* arguments were evaluated, what their handlers appended to the embeds and
\* the emojis stays in the RenderResult, as does what the failing handler
\* appended before it raised: only the text of the failing placeholder
\* becomes the empty string.
SideEffectsKept ==
    \A t \in Tasks : \A k \in DOMAIN trace[t] :
        LET e == trace[t][k]
            res == result[interp[t]]
        IN /\ e.ev = "return" /\ e.handler = "embed_join" =>
                 e.args \in Range(res.embeds)
           /\ e.ev = "return" /\ e.handler = "emoji" =>
                 e.args[1] \in Range(res.emojis)
           /\ e.ev = "raise" /\ e.handler = "failing_function" =>
                 /\ <<"!">> \in Range(res.emojis)
                 /\ e.out = <<>>
                 /\ OutAt(t, e.path) = <<>>
                 /\ returned[t].kind = "result" =>
                       /\ ContentComposed(t)
                       /\ text[t] = <<"{", "e", ":", "{", "f", ":", "k", "}", "}">> =>
                             Returned(t) = [content |-> <<>>,
                                            embeds |-> << << <<"k">> >> >>,
                                            emojis |-> << <<"!">> >>]

\* A Function handler raised after a handler nested in its argument had
\* appended an embed; the call returned that embed, and a content without
\* the argument.
SideEffectsKeptWitness ==
    \E t \in Tasks : \E j, k \in DOMAIN trace[t] :
        /\ returned[t].kind = "result"
        /\ j < k
        /\ trace[t][j].ev = "return" /\ trace[t][j].handler = "embed_join"
        /\ trace[t][k].ev = "raise" /\ trace[t][k].handler = "failing_function"
        /\ IsPrefix(trace[t][k].path, trace[t][j].path)
        /\ Returned(t).embeds = << << <<"k">> >> >>
        /\ Returned(t).content = <<>>

\* The node of an event was given up: its name is in neither namespace, or
\* the depth guard stopped it.
GivenUp(e) == e.ev \in {"unknown", "guard"}

\* The step gives up a node of task t.
GivesUp(t) ==
    /\ Len(trace'[t]) > Len(trace[t])
    /\ GivenUp(trace'[t][Len(trace[t]) + 1])

\* The node of an event has a placeholder inside it.
HasNested(t, e) ==
    \E g \in DOMAIN NodeAt(nodes[t], e.path).args :
        \E n \in DOMAIN NodeAt(nodes[t], e.path).args[g] :
            NodeAt(nodes[t], e.path).args[g][n].type = "placeholder"

NothingNestedEvaluated ==
    \A t \in Tasks :
        /\ \A k \in DOMAIN trace[t] :
              LET e == trace[t][k] IN
              GivenUp(e) =>
                  /\ e.out = e.raw
                  /\ \A j \in DOMAIN trace[t] \ {k} :
                        ~IsPrefix(e.path, trace[t][j].path)
        /\ interp[t] # 0 =>
              /\ result[interp[t]].embeds = EmbedsAdded(t)
              /\ result[interp[t]].emojis = FirstOccurrences(EmojisAdded(t))
        /\ returned[t].kind = "result" =>
              /\ text[t] = <<"{", "u", ":", "{", "f", ":", "p", "}", ";",
                             "{", "m", ":", "q", "}", "}", "x">> =>
                    /\ Returned(t) = [content |-> text[t], embeds |-> <<>>,
                                      emojis |-> <<>>]
                    /\ HandlersRun(t) = <<>>
              /\ text[t] = Nest(MAX_NESTING + 3) =>
                    /\ Len(HandlersRun(t)) = MAX_NESTING + 1
                    /\ Len(Returned(t).embeds) = MAX_NESTING + 1
                    /\ Returned(t).content = Nest(2)

GivingUpChangesNothing ==
    \A t \in Tasks :
        GivesUp(t) =>
            \A i \in DOMAIN result :
                /\ result'[i].embeds = result[i].embeds
                /\ result'[i].emojis = result[i].emojis

\* C28: when the name of a placeholder is in neither namespace, or the depth
\* guard stops a node, nothing nested inside it is evaluated: no handler is
\* called for a nested placeholder, and the step that gives the node up
\* leaves the embeds and the emojis of the RenderResult as they are.
UnevaluatedLeavesNoTrace ==
    []NothingNestedEvaluated /\ [][GivingUpChangesNothing]_vars

\* A call has returned the raw text of a placeholder of an unknown name
\* that has two Function placeholders inside it, followed by a text.
UnevaluatedLeavesNoTraceWitness ==
    \E t \in Tasks :
        /\ returned[t].kind = "result"
        /\ Len(trace[t]) = 2
        /\ trace[t][1].ev = "unknown" /\ HasNested(t, trace[t][1])
        /\ text[t] = <<"{", "u", ":", "{", "f", ":", "p", "}", ";",
                       "{", "m", ":", "q", "}", "}", "x">>
        /\ Returned(t).content = text[t]

\* s holds nothing but the character c (or nothing at all).
Only(s, c) == \A k \in DOMAIN s : s[k] = c

\* The branch _eval_placeholder takes for a placeholder of this name that is
\* written without a colon.
BareKind(name) ==
    IF name \in VariableNames THEN "variable"
    ELSE IF name \in FunctionNames THEN "function"
    ELSE "unknown"

\* C29: a placeholder with a colon whose argument portion is empty or holds
\* separators only has no argument group and is resolved as the placeholder
\* of that name without a colon: the Variable is called if the name is one,
\* otherwise the Function with no argument.  An argument portion of blanks
\* is one argument group, the arguments not being trimmed.
BareColonIsNoArgument ==
    \A t \in Tasks :
        /\ \A n \in Tree(nodes[t]) :
              n.type = "placeholder" =>
                  LET portion == ArgsPortion(n.raw) IN
                  /\ Only(portion, ";") => n.args = <<>>
                  /\ portion # <<>> /\ Only(portion, " ") =>
                        /\ Len(n.args) = 1
                        /\ GroupSource(n.args[1]) = portion
        /\ \A k \in DOMAIN trace[t] :
              LET e == trace[t][k] IN
              /\ e.ev \in {"variable", "function", "unknown"}
              /\ Only(ArgsPortion(e.raw), ";")
              => /\ e.ev = BareKind(e.name)
                 /\ e.ev = "function" =>
                       /\ trace[t][k + 1].ev = "call"
                       /\ trace[t][k + 1].path = e.path
                       /\ trace[t][k + 1].args = <<>>
        /\ returned[t].kind = "result" =>
              /\ \A n \in ColonNames : \A s \in ColonTails :
                    text[t] = <<"{", n, ":">> \o s \o <<"}">> /\ Only(s, ";") =>
                        IF BareKind(<<n>>) = "unknown"
                        THEN Returned(t) = [content |-> text[t],
                                            embeds |-> <<>>, emojis |-> <<>>]
                        ELSE Returned(t) =
                                 RenderAlone(<<"{", n, "}">>,
                                             lex(<<"{", n, "}">>), Ctx(t))
              /\ text[t] = <<"{", "f", ":", " ", "}">> =>
                    Returned(t).embeds = << << <<" ">> >> >>
              /\ text[t] = <<"{", "b", ":", " ", "}">> =>
                    Returned(t).content = <<"b", " ">>
              /\ text[t] = <<"{", "v", ":", " ", "}">> =>
                    Returned(t).content = text[t]
              /\ text[t] = <<"{", "v", ":", "}">> =>
                    Returned(t).content = <<"A">>
              /\ text[t] = <<"{", "f", ":", ";", "}">> =>
                    Returned(t).embeds = << <<>> >>

\* A placeholder whose name is a Variable and a Function, written with a
\* colon and a separator, has given what the Variable returns.
BareColonIsNoArgumentWitness ==
    \E t \in Tasks :
        /\ returned[t].kind = "result"
        /\ text[t] = <<"{", "b", ":", ";", "}">>
        /\ HandlersRun(t) = <<"both_variable">>
        /\ Returned(t).content = <<"B">>

\* The variables of a loop and the lowest value its variable depth has taken.
Watched(st, low) == [st |-> st, low |-> low]
Watch(next, low) == Watched(next, IF next.depth < low THEN next.depth ELSE low)

\* The lowest depth the loop of _find_separator counts on inner, and the loop
\* of _split_arguments on args_str.
FindSeparatorLowest(inner, sep) ==
    While(LAMBDA s : s.st.found # 0 \/ s.st.i > Len(inner),
          LAMBDA s : Watch(FindSeparatorBody(inner, sep, s.st), s.low),
          Watched([i |-> 1, depth |-> 0, escaped |-> FALSE, found |-> 0], 0)).low
SplitArgumentsLowest(args_str) ==
    While(LAMBDA s : s.st.i > Len(args_str),
          LAMBDA s : Watch(SplitArgumentsBody(args_str, s.st), s.low),
          Watched([i |-> 1, buffer |-> <<>>, depth |-> 0, escaped |-> FALSE,
                   segments |-> <<>>], 0)).low

\* The braces of s that are not escaped are balanced, and s does not end
\* with a backslash that escapes what comes after s.
Balanced(s) ==
    /\ BraceDepth(s, 1, Len(s)) = 0
    /\ \A k \in 1..Len(s) : BraceDepth(s, 1, k) >= 0
    /\ s # <<>> => ~Unescaped(s, Len(s), "\\")

\* C30: every argument string cut out of a closed placeholder has balanced
\* braces and does not end inside an escape, the four scans of the lexer
\* taking the same characters for escaped: lex, called on an argument, meets
\* no placeholder that is not closed, and the depth that _find_separator and
\* _split_arguments count does not go below 0.
ArgumentsBalanced ==
    \A t \in Tasks : \A k \in DOMAIN lexer[t].stack :
        LET f == lexer[t].stack[k]
            colon_pos == _find_separator(f.text, ":")
        IN /\ f.fn = "_parse_arguments" =>
                 /\ Balanced(f.text)
                 /\ FindSeparatorLowest(f.text, ":") = 0
                 /\ colon_pos = FirstAtDepth0(f.text, ":")
                 /\ colon_pos # 0 =>
                       SplitArgumentsLowest(
                           SubSeq(f.text, colon_pos + 1, Len(f.text))) = 0
                 /\ \A a \in DOMAIN f.arg_strings :
                       /\ Balanced(f.arg_strings[a])
                       /\ UnclosedFrom(f.arg_strings[a], 1) = 0
           /\ f.fn = "lex" /\ k > 1 =>
                 /\ Balanced(f.text)
                 /\ UnclosedFrom(f.text, 1) = 0
           /\ f.fn = "_parse_placeholder" /\ k > 2 =>
                 /\ ClosingBrace(f.text) # 0
                 /\ ClosingBrace(f.text) = Match(f.text, 1)

\* lex is called on the second of two argument strings, a nested placeholder
\* that has a separator of its own; the first holds an escaped separator.
ArgumentsBalancedWitness ==
    \E t \in Tasks :
        /\ pc[t] = "lex"
        /\ Len(lexer[t].stack) = 5
        /\ lexer[t].stack[3].fn = "_parse_arguments"
        /\ lexer[t].stack[3].arg_strings =
               << <<"a", "\\", ";", "b">>, <<"{", "u", ":", "c", ";", "d", "}">> >>
        /\ lexer[t].stack[4].fn = "lex"
        /\ lexer[t].stack[4].text = <<"{", "u", ":", "c", ";", "d", "}">>
        /\ lexer[t].stack[5].fn = "_parse_placeholder"

\* No other call was made on the Interpreter of the call of task t.
OnlyCallOnInstance(t) == \A u \in Tasks \ {t} : interp[u] # interp[t]

\* No call was made after that of task t on its Interpreter.
LastCallOnInstance(t) == \A u \in Tasks : u > t => interp[u] # interp[t]

\* The step is lines 47-49 for a node of task t: the event it adds.
Excepts(t) ==
    /\ Len(trace'[t]) = Len(trace[t]) + 1
    /\ trace'[t][Len(trace'[t])].ev = "except"

FaultsIsolated ==
    \A t \in Tasks :
        /\ \A k \in DOMAIN trace[t] :
              LET e == trace[t][k] IN
              /\ e.ev = "except" =>
                    /\ e.depth = 0
                    /\ e.raw = nodes[t][e.path[1]].raw
                    /\ e.out = e.raw
                    /\ \A j \in DOMAIN trace[t] \ {k} :
                          ~IsPrefix(e.path, trace[t][j].path)
              /\ \A j \in 1..(k - 1) :
                    Completes(e) /\ e.depth = 0
                    /\ Completes(trace[t][j]) /\ trace[t][j].depth = 0
                    => trace[t][j].path[1] < e.path[1]
        /\ pc[t] \in {"eval", "await"} =>
              \A j \in 1..(idx[t] - 1) : EvaluatedAt(t, <<j>>)
        /\ returned[t].kind = "raise" => returned[t].exc = "CancelledError"
        /\ returned[t].kind = "result" =>
              /\ \A j \in 1..Len(nodes[t]) : EvaluatedAt(t, <<j>>)
              /\ OnlyCallOnInstance(t) =>
                    Returned(t).content = GivenBefore(t, Len(nodes[t]) + 1)
              /\ OnlyCallOnInstance(t) /\ text[t] = <<"a", "{", "v", "}", "b">> =>
                    Returned(t).content =
                        IF limit[t] <= 3 THEN text[t]
                        ELSE IF limit[t] = 4 THEN <<"a", "b">>
                        ELSE <<"a">> \o Ctx(t).author \o <<"b">>

RawInPlace ==
    \A t \in Tasks :
        Excepts(t) =>
            /\ result'[interp[t]].content =
                   result[interp[t]].content \o nodes[t][idx[t]].raw
            /\ result'[interp[t]].embeds = result[interp[t]].embeds
            /\ result'[interp[t]].emojis = result[interp[t]].emojis
            /\ pc'[t] = "raised" \/ pc'[t] = "done" => idx[t] = Len(nodes[t])
            /\ pc'[t] = "eval" => idx'[t] = idx[t] + 1

\* C23: when the evaluation of a top-level node fails with an exception that
\* no except clause of the placeholder evaluation takes, the content gets the
\* raw text of that node in the place of what it would have given, and the
\* top-level nodes after it are evaluated, in their order; the exception
\* does not leave render.
TopLevelFaultIsolated == []FaultsIsolated /\ [][RawInPlace]_vars

\* render was called with one frame left beyond that of _eval: the text
\* before the placeholder was evaluated, the placeholder gave its raw text,
\* and the text after it was evaluated.
TopLevelFaultIsolatedWitness ==
    \E t \in Tasks :
        /\ returned[t].kind = "result"
        /\ OnlyCallOnInstance(t)
        /\ text[t] = <<"a", "{", "v", "}", "b">>
        /\ [k \in DOMAIN trace[t] |-> trace[t][k].ev] = <<"text", "except", "text">>
        /\ Returned(t).content = text[t]

\* C24 as stated: every call of Interpreter.render starts from an empty
\* RenderResult, so that the result a call returns holds what the nodes
\* passed to that call gave, and the embeds and emojis their handlers added,
\* for the first call on an Interpreter and for a later one.
RenderStartsEmpty ==
    \A t \in Tasks :
        returned[t].kind = "result" /\ LastCallOnInstance(t) =>
            /\ Returned(t).content = GivenBefore(t, Len(nodes[t]) + 1)
            /\ Returned(t).embeds = EmbedsAdded(t)
            /\ Returned(t).emojis = FirstOccurrences(EmojisAdded(t))

=============================================================================
